---- MODULE Spec2Model ----
(***************************************************************************)
(* A model of the flexible ingestion and transformation pipeline of        *)
(* abt-dashboard (package transform): the format converter, the registered *)
(* transformations, validators and optimizations, and the                  *)
(* FlexibleDataHandler that wires them together.                           *)
(*                                                                         *)
(* Go strings are modelled as sequences of one-character strings, so that  *)
(* trimming, case mapping and regular-expression cleaning are computed     *)
(* character by character as the code computes them.                       *)
(***************************************************************************)
EXTENDS Integers, Sequences, FiniteSets, TLC

VARIABLES
    config,           \* the TransformConfig the handler was constructed with
    transformations,  \* engine.transformations: the registered names, in order
    seenIDs,          \* UniquenessValidator.seenIDs of the engine's one validator
    input,            \* the bytes (document) handed to the operation under way
    output,           \* what the operations returned
    pc                \* the position of each call / of the scenario

vars == <<config, transformations, seenIDs, input, output, pc>>

(***************************************************************************)
(* Bounds of the model.                                                    *)
(***************************************************************************)
MaxCalls == 2

MaxPasses == 2

(***************************************************************************)
(* Strings.                                                                *)
(***************************************************************************)
LowerAlpha == <<"a","b","c","d","e","f","g","h","i","j","k","l","m","n","o","p","q","r","s","t","u","v","w","x","y","z">>

UpperAlpha == <<"A","B","C","D","E","F","G","H","I","J","K","L","M","N","O","P","Q","R","S","T","U","V","W","X","Y","Z">>

Digits == <<"0","1","2","3","4","5","6","7","8","9">>

Range(s) == {s[i] : i \in 1..Len(s)}

IndexOf(c, s) == CHOOSE i \in 1..Len(s) : s[i] = c

IsLower(c) == c \in Range(LowerAlpha)

IsUpper(c) == c \in Range(UpperAlpha)

IsLetter(c) == IsLower(c) \/ IsUpper(c)

IsDigit(c) == c \in Range(Digits)

\* Unicode category P (punctuation) within ASCII
IsPunct(c) == c \in {"!", "\"", "#", "%", "&", "'", "(", ")", "*", ",", "-", ".", "/",
                     ":", ";", "?", "@", "[", "\\", "]", "_", "{", "}"}

\* Unicode category Z (separators) within ASCII: the space only
IsSeparatorZ(c) == c = " "

\* unicode.IsSpace within ASCII (strings.TrimSpace, strings.Fields)
IsSpace(c) == c \in {" ", "\t", "\n", "\r", "\f"}

ToLowerChar(c) == IF IsUpper(c) THEN LowerAlpha[IndexOf(c, UpperAlpha)] ELSE c

ToUpperChar(c) == IF IsLower(c) THEN UpperAlpha[IndexOf(c, LowerAlpha)] ELSE c

ToLower(s) == [i \in 1..Len(s) |-> ToLowerChar(s[i])]

ToUpper(s) == [i \in 1..Len(s) |-> ToUpperChar(s[i])]

RECURSIVE TrimLeft(_)
TrimLeft(s) == IF s # <<>> /\ IsSpace(Head(s)) THEN TrimLeft(Tail(s)) ELSE s

RECURSIVE TrimRight(_)
TrimRight(s) ==
    IF s # <<>> /\ IsSpace(s[Len(s)]) THEN TrimRight(SubSeq(s, 1, Len(s) - 1)) ELSE s

TrimSpace(s) == TrimRight(TrimLeft(s))

\* strings.ReplaceAll(s, c, "") for a one-character c
RECURSIVE RemoveChar(_, _)
RemoveChar(s, c) ==
    IF s = <<>> THEN <<>>
    ELSE IF Head(s) = c THEN RemoveChar(Tail(s), c)
    ELSE <<Head(s)>> \o RemoveChar(Tail(s), c)

\* strings.Title: the letter that starts a word is upper-cased; letters, digits and
\* the underscore continue a word, every other character separates words
IsWordChar(c) == IsLetter(c) \/ IsDigit(c) \/ c = "_"

Title(s) ==
    [i \in 1..Len(s) |->
        IF i = 1 \/ ~IsWordChar(s[i - 1]) THEN ToUpperChar(s[i]) ELSE s[i]]

\* strings.Fields: the maximal runs of non-space characters
RECURSIVE Fields(_)
Fields(s) ==
    LET t == TrimLeft(s)
        WordEnd[i \in 0..Len(t)] ==
            IF i = Len(t) \/ IsSpace(t[i + 1]) THEN i ELSE WordEnd[i + 1]
    IN  IF t = <<>> THEN <<>>
        ELSE <<SubSeq(t, 1, WordEnd[1])>> \o Fields(SubSeq(t, WordEnd[1] + 1, Len(t)))

\* strings.Join(words, " ")
RECURSIVE JoinSpace(_)
JoinSpace(words) ==
    IF words = <<>> THEN <<>>
    ELSE IF Len(words) = 1 THEN words[1]
    ELSE words[1] \o <<" ">> \o JoinSpace(Tail(words))

\* regexp (?i)pat, ReplaceAllString(s, rep): leftmost non-overlapping matches
RECURSIVE ReplaceAllFold(_, _, _)
ReplaceAllFold(s, pat, rep) ==
    IF Len(s) < Len(pat) THEN s
    ELSE IF ToLower(SubSeq(s, 1, Len(pat))) = ToLower(pat)
         THEN rep \o ReplaceAllFold(SubSeq(s, Len(pat) + 1, Len(s)), pat, rep)
         ELSE <<Head(s)>> \o ReplaceAllFold(Tail(s), pat, rep)

(***************************************************************************)
(* The canonical record, models.Transaction, and time.Time.                *)
(***************************************************************************)
\* time.Time: the instant in Unix seconds and milliseconds, and the location the
\* value carries. The zero Time (January 1, year 1, UTC) is flagged.
ZeroTime == [zero |-> TRUE, sec |-> 0, ms |-> 0, loc |-> "UTC"]

MkTime(sec, ms, loc) == [zero |-> FALSE, sec |-> sec, ms |-> ms, loc |-> loc]

IsZero(t) == t.zero

\* Time.UTC(): the same instant, in the UTC location
UTC(t) == [t EXCEPT !.loc = "UTC"]

Transaction(id, country, region, product, price, quantity, txTime) ==
    [ID |-> id, Country |-> country, Region |-> region, ProductName |-> product,
     UnitPriceCents |-> price, Quantity |-> quantity, TxTime |-> txTime]

(***************************************************************************)
(* The transformations.                                                    *)
(***************************************************************************)
\* a map[string]string as a function on its keys
Has(m, k) == k \in DOMAIN m

EmptyMap == [k \in {} |-> <<>>]

CurrencyNormalizationTransform(tx) == tx

DateNormalizationTransform(tx) ==
    IF ~IsZero(tx.TxTime) THEN [tx EXCEPT !.TxTime = UTC(tx.TxTime)] ELSE tx

\* regexp [^\p{L}\p{N}\p{P}\p{Z}], ReplaceAllString(str, "")
RemoveNonPrintable(s) ==
    SelectSeq(s, LAMBDA c : IsLetter(c) \/ IsDigit(c) \/ IsPunct(c) \/ IsSeparatorZ(c))

\* regexp \s+, ReplaceAllString(str, " ")
RECURSIVE CollapseSpaces(_)
CollapseSpaces(s) ==
    IF s = <<>> THEN <<>>
    ELSE IF IsSpace(Head(s))
         THEN <<" ">> \o CollapseSpaces(TrimLeft(s))
         ELSE <<Head(s)>> \o CollapseSpaces(Tail(s))

cleanString(str) == CollapseSpaces(RemoveNonPrintable(TrimSpace(str)))

StringCleaningTransform(tx) ==
    [tx EXCEPT !.ID = cleanString(tx.ID),
               !.Country = cleanString(tx.Country),
               !.Region = cleanString(tx.Region),
               !.ProductName = cleanString(tx.ProductName)]

CountryMappings ==
    (<<"u","s","a">> :> <<"U","n","i","t","e","d"," ","S","t","a","t","e","s">>) @@
    (<<"u","s">> :> <<"U","n","i","t","e","d"," ","S","t","a","t","e","s">>) @@
    (<<"a","m","e","r","i","c","a">> :> <<"U","n","i","t","e","d"," ","S","t","a","t","e","s">>) @@
    (<<"u","n","i","t","e","d"," ","s","t","a","t","e","s"," ","o","f"," ","a","m","e","r","i","c","a">> :> <<"U","n","i","t","e","d"," ","S","t","a","t","e","s">>) @@
    (<<"u","k">> :> <<"U","n","i","t","e","d"," ","K","i","n","g","d","o","m">>) @@
    (<<"b","r","i","t","a","i","n">> :> <<"U","n","i","t","e","d"," ","K","i","n","g","d","o","m">>) @@
    (<<"g","r","e","a","t"," ","b","r","i","t","a","i","n">> :> <<"U","n","i","t","e","d"," ","K","i","n","g","d","o","m">>) @@
    (<<"e","n","g","l","a","n","d">> :> <<"U","n","i","t","e","d"," ","K","i","n","g","d","o","m">>) @@
    (<<"u","a","e">> :> <<"U","n","i","t","e","d"," ","A","r","a","b"," ","E","m","i","r","a","t","e","s">>) @@
    (<<"s","o","u","t","h"," ","k","o","r","e","a">> :> <<"S","o","u","t","h"," ","K","o","r","e","a">>) @@
    (<<"r","e","p","u","b","l","i","c"," ","o","f"," ","k","o","r","e","a">> :> <<"S","o","u","t","h"," ","K","o","r","e","a">>) @@
    (<<"n","o","r","t","h"," ","k","o","r","e","a">> :> <<"N","o","r","t","h"," ","K","o","r","e","a">>) @@
    (<<"d","e","m","o","c","r","a","t","i","c"," ","p","e","o","p","l","e","'","s"," ","r","e","p","u","b","l","i","c"," ","o","f"," ","k","o","r","e","a">> :> <<"N","o","r","t","h"," ","K","o","r","e","a">>) @@
    (<<"p","r","c">> :> <<"C","h","i","n","a">>) @@
    (<<"p","e","o","p","l","e","'","s"," ","r","e","p","u","b","l","i","c"," ","o","f"," ","c","h","i","n","a">> :> <<"C","h","i","n","a">>) @@
    (<<"r","o","c">> :> <<"T","a","i","w","a","n">>) @@
    (<<"r","e","p","u","b","l","i","c"," ","o","f"," ","c","h","i","n","a">> :> <<"T","a","i","w","a","n">>)

mapCountry(cfg, country) ==
    LET normalizedCountry == ToLower(TrimSpace(country))
    IN  IF Has(CountryMappings, normalizedCountry) THEN CountryMappings[normalizedCountry]
        ELSE IF Has(cfg.CustomMappings, normalizedCountry)
             THEN cfg.CustomMappings[normalizedCountry]
        ELSE Title(ToLower(country))

CountryMappingTransform(cfg, tx) == [tx EXCEPT !.Country = mapCountry(cfg, tx.Country)]

RegionMappings ==
    (<<"n">> :> <<"N","o","r","t","h">>) @@
    (<<"s">> :> <<"S","o","u","t","h">>) @@
    (<<"e">> :> <<"E","a","s","t">>) @@
    (<<"w">> :> <<"W","e","s","t">>) @@
    (<<"n","e">> :> <<"N","o","r","t","h","e","a","s","t">>) @@
    (<<"n","w">> :> <<"N","o","r","t","h","w","e","s","t">>) @@
    (<<"s","e">> :> <<"S","o","u","t","h","e","a","s","t">>) @@
    (<<"s","w">> :> <<"S","o","u","t","h","w","e","s","t">>) @@
    (<<"c","e","n","t","r","a","l">> :> <<"C","e","n","t","r","a","l">>) @@
    (<<"c","e","n","t","r","e">> :> <<"C","e","n","t","r","a","l">>) @@
    (<<"m","i","d">> :> <<"C","e","n","t","r","a","l">>) @@
    (<<"m","i","d","d","l","e">> :> <<"C","e","n","t","r","a","l">>)

mapRegion(cfg, region) ==
    LET normalizedRegion == ToLower(TrimSpace(region))
        configKey == <<"r","e","g","i","o","n","_">> \o normalizedRegion
    IN  IF Has(RegionMappings, normalizedRegion) THEN RegionMappings[normalizedRegion]
        ELSE IF Has(cfg.CustomMappings, configKey) THEN cfg.CustomMappings[configKey]
        ELSE Title(ToLower(region))

RegionMappingTransform(cfg, tx) == [tx EXCEPT !.Region = mapRegion(cfg, tx.Region)]

\* the keyword patterns (?i)widget -> "Widget", ...; each replacement only changes the
\* case of the letters it matches
ProductPatterns ==
    <<<<"W","i","d","g","e","t">>, <<"G","a","d","g","e","t">>, <<"D","e","v","i","c","e">>, <<"T","o","o","l">>, <<"K","i","t">>, <<"S","e","t">>, <<"P","a","c","k">>, <<"B","u","n","d","l","e">>>>

RECURSIVE ApplyPatterns(_, _)
ApplyPatterns(s, pats) ==
    IF pats = <<>> THEN s
    ELSE ApplyPatterns(ReplaceAllFold(s, Head(pats), Head(pats)), Tail(pats))

\* strings.ToUpper(word[:1]) + strings.ToLower(word[1:])
CapitalizeWord(word) ==
    IF word = <<>> THEN word
    ELSE ToUpper(SubSeq(word, 1, 1)) \o ToLower(SubSeq(word, 2, Len(word)))

normalizeProductName(cfg, productName) ==
    LET name == TrimSpace(productName)
        configKey == <<"p","r","o","d","u","c","t","_">> \o ToLower(name)
        words == Fields(ApplyPatterns(name, ProductPatterns))
    IN  IF Has(cfg.CustomMappings, configKey) THEN cfg.CustomMappings[configKey]
        ELSE JoinSpace([i \in 1..Len(words) |-> CapitalizeWord(words[i])])

ProductNameNormalizationTransform(cfg, tx) ==
    [tx EXCEPT !.ProductName = normalizeProductName(cfg, tx.ProductName)]

\* TaxCalculator.Transform, a caller-registered stage: int64(float64(price) * 1.10)
TaxCalculatorTransform(tx) == [tx EXCEPT !.UnitPriceCents = (tx.UnitPriceCents * 11) \div 10]

\* the names NewDataTransformationEngine registers, in registration order
DefaultTransformations ==
    <<"CurrencyNormalization", "DateNormalization", "StringCleaning",
      "CountryMapping", "RegionMapping", "ProductNameNormalization">>

\* Transformation.Transform of the named stage: [err, tx]. CustomTransformation and
\* TaxCalculator are stages a caller implements and registers; the interface lets a
\* stage return an error, which the first does when <<"f","a","i","l","s">> (it returns its input
\* otherwise).
Transform(name, cfg, tx, fails) ==
    CASE name = "CurrencyNormalization" -> [err |-> FALSE, tx |-> CurrencyNormalizationTransform(tx)]
      [] name = "DateNormalization" -> [err |-> FALSE, tx |-> DateNormalizationTransform(tx)]
      [] name = "StringCleaning" -> [err |-> FALSE, tx |-> StringCleaningTransform(tx)]
      [] name = "CountryMapping" -> [err |-> FALSE, tx |-> CountryMappingTransform(cfg, tx)]
      [] name = "RegionMapping" -> [err |-> FALSE, tx |-> RegionMappingTransform(cfg, tx)]
      [] name = "ProductNameNormalization" ->
            [err |-> FALSE, tx |-> ProductNameNormalizationTransform(cfg, tx)]
      [] name = "CustomTransformation" -> [err |-> fails, tx |-> tx]
      [] name = "TaxCalculator" -> [err |-> FALSE, tx |-> TaxCalculatorTransform(tx)]

(***************************************************************************)
(* Number and date texts (strconv, time).                                  *)
(***************************************************************************)
DigitValue(c) == IndexOf(c, Digits) - 1

IsDigits(s) == s # <<>> /\ \A i \in 1..Len(s) : IsDigit(s[i])

RECURSIVE DigitsValue(_)
DigitsValue(s) ==
    IF s = <<>> THEN 0 ELSE 10 * DigitsValue(SubSeq(s, 1, Len(s) - 1)) + DigitValue(s[Len(s)])

RECURSIVE Pow10(_)
Pow10(n) == IF n = 0 THEN 1 ELSE 10 * Pow10(n - 1)

HasSign(s) == s # <<>> /\ Head(s) \in {"+", "-"}

Unsigned(s) == IF HasSign(s) THEN Tail(s) ELSE s

RECURSIVE StripLeadingZeros(_)
StripLeadingZeros(s) ==
    IF Len(s) > 1 /\ Head(s) = "0" THEN StripLeadingZeros(Tail(s)) ELSE s

\* a <= b for digit texts of one length
RECURSIVE DigitsLeq(_, _)
DigitsLeq(a, b) ==
    \/ a = <<>>
    \/ DigitValue(Head(a)) < DigitValue(Head(b))
    \/ Head(a) = Head(b) /\ DigitsLeq(Tail(a), Tail(b))

\* the value is within int64: at most 2^63 - 1, or 2^63 under a minus sign
InInt64(s) ==
    LET d == StripLeadingZeros(Unsigned(s))
    IN  \/ Len(d) < 19
        \/ /\ Len(d) = 19
           /\ DigitsLeq(d, IF Head(s) = "-" THEN <<"9","2","2","3","3","7","2","0","3","6","8","5","4","7","7","5","8","0","8">>
                           ELSE <<"9","2","2","3","3","7","2","0","3","6","8","5","4","7","7","5","8","0","7">>)

\* strconv.ParseInt(s, 10, 64) succeeds
IsIntText(s) == IsDigits(Unsigned(s)) /\ InInt64(s)

IntValue(s) == IF s # <<>> /\ Head(s) = "-" THEN 0 - DigitsValue(Unsigned(s)) ELSE DigitsValue(Unsigned(s))

\* strconv.ParseFloat(s, 64) on decimal texts: [sign] digits [ "." digits ], with a digit
\* on at least one side of the point. Exponent, hexadecimal, "inf" and "nan" texts are
\* not among the texts the model draws.
PointAt(s) == IF "." \in Range(s) THEN IndexOf(".", s) ELSE Len(s) + 1

IntPart(s) == SubSeq(Unsigned(s), 1, PointAt(Unsigned(s)) - 1)

FracPart(s) == SubSeq(Unsigned(s), PointAt(Unsigned(s)) + 1, Len(Unsigned(s)))

IsFloatText(s) ==
    /\ \A i \in 1..Len(IntPart(s)) : IsDigit(IntPart(s)[i])
    /\ \A i \in 1..Len(FracPart(s)) : IsDigit(FracPart(s)[i])
    /\ Len(IntPart(s)) + Len(FracPart(s)) > 0

\* the parsed float64, kept exactly: sign * num / 10^scale
FloatValue(s) ==
    [neg |-> s # <<>> /\ Head(s) = "-",
     num |-> DigitsValue(IntPart(s) \o FracPart(s)),
     scale |-> Len(FracPart(s))]

FloatOfInt(n) == [neg |-> n < 0, num |-> IF n < 0 THEN 0 - n ELSE n, scale |-> 0]

\* The amounts c/100 (0 <= c < 2000) whose float64 product with 100.0 falls just below
\* c, so that the conversion to int64 yields c - 1 (IEEE 754 double arithmetic).
TruncatedBelow ==
    {
     29, 57, 58, 113, 114, 115, 116, 201, 203, 205, 207, 226, 228, 230,
     232, 251, 253, 255, 402, 406, 410, 414, 427, 431, 435, 439, 452, 456,
     460, 464, 477, 481, 485, 489, 502, 506, 510, 803, 804, 812, 820, 828,
     829, 837, 845, 853, 854, 862, 870, 878, 879, 887, 895, 903, 904, 912,
     920, 928, 929, 937, 945, 953, 954, 962, 970, 978, 979, 987, 995, 1003,
     1004, 1012, 1020, 1606, 1608, 1615, 1624, 1631, 1633, 1640, 1649, 1656, 1658, 1665,
     1674, 1681, 1683, 1690, 1699, 1706, 1708, 1715, 1724, 1731, 1733, 1740, 1749, 1756,
     1758, 1765, 1774, 1781, 1783, 1790, 1799, 1806, 1808, 1815, 1824, 1831, 1833, 1840,
     1849, 1856, 1858, 1865, 1874, 1881, 1883, 1890, 1899, 1906, 1908, 1915, 1924, 1931,
     1933, 1940, 1949, 1956, 1958, 1965, 1974, 1981, 1983, 1990, 1999
    }

\* int64(f * multiplier): the product truncated toward zero
FloatTimesTrunc(f, multiplier) ==
    LET m == IF multiplier < 0 THEN 0 - multiplier ELSE multiplier
        exact == (f.num * m) \div Pow10(f.scale)
        whole == (f.num * m) % Pow10(f.scale) = 0
        short == whole /\ m = 100 /\ f.scale > 0 /\ exact \in TruncatedBelow
        mag == IF short THEN exact - 1 ELSE exact
    IN  IF f.neg # (multiplier < 0) THEN 0 - mag ELSE mag

\* int64(f)
FloatTrunc(f) == FloatTimesTrunc(f, 1)

\* fmt.Sprintf("%v", f) of a float64 below 10^6 in magnitude, and of an int: the
\* shortest decimal text
RECURSIVE NatText(_)
NatText(n) == IF n < 10 THEN <<Digits[n + 1]>> ELSE NatText(n \div 10) \o <<Digits[(n % 10) + 1]>>

RECURSIVE StripZeros(_)
StripZeros(s) == IF s # <<>> /\ s[Len(s)] = "0" THEN StripZeros(SubSeq(s, 1, Len(s) - 1)) ELSE s

PadLeft(s, n) == [i \in 1..(n - Len(s)) |-> "0"] \o s

FormatV(f) ==
    LET units == f.num \div Pow10(f.scale)
        frac == StripZeros(PadLeft(NatText(f.num % Pow10(f.scale)), f.scale))
    IN  (IF f.neg /\ f.num # 0 THEN <<"-">> ELSE <<>>) \o NatText(units)
        \o (IF frac = <<>> THEN <<>> ELSE <<".">> \o frac)

\* fmt.Sprintf("%d", n)
FormatD(n) == IF n < 0 THEN <<"-">> \o NatText(0 - n) ELSE NatText(n)

\* fmt.Sprintf("%.2f", float64(cents) / multiplier) for the multiplier 100
FormatCents(cents) ==
    LET mag == IF cents < 0 THEN 0 - cents ELSE cents
    IN  (IF cents < 0 THEN <<"-">> ELSE <<>>) \o NatText(mag \div 100) \o <<".">>
        \o PadLeft(NatText(mag % 100), 2)

\* the UTC wall clock of the instants of the model, as Time.Format renders it
WallClocks ==
    {[sec |-> 1710498645, wall |-> <<"2","0","2","4","-","0","3","-","1","5","T","1","0",":","3","0",":","4","5">>],
     [sec |-> 1710460800, wall |-> <<"2","0","2","4","-","0","3","-","1","5","T","0","0",":","0","0",":","0","0">>],
     [sec |-> 1262304000, wall |-> <<"2","0","1","0","-","0","1","-","0","1","T","0","0",":","0","0",":","0","0">>],
     [sec |-> 1710503445, wall |-> <<"2","0","2","4","-","0","3","-","1","5","T","1","1",":","5","0",":","4","5">>],
     [sec |-> 1710523245, wall |-> <<"2","0","2","4","-","0","3","-","1","5","T","1","7",":","2","0",":","4","5">>]}

\* the zones the machine's Local location may be: UTC, or UTC+05:30
LocalZones == {[offset |-> 0, suffix |-> <<"Z">>], [offset |-> 19800, suffix |-> <<"+","0","5",":","3","0">>]}

WallText(sec) == (CHOOSE w \in WallClocks : w.sec = sec).wall

\* The date texts of the model: what time.Parse makes of each under each layout that
\* accepts it. Every other text of the model is rejected by every layout.
DateTexts ==
    {[text |-> w.wall \o <<"Z">>,
      layouts |-> {"2006-01-02T15:04:05Z", "2006-01-02T15:04:05Z07:00"},
      sec |-> w.sec] : w \in WallClocks}
    \cup
    {[text |-> <<"2","0","2","4","-","0","3","-","1","5">>, layouts |-> {"2006-01-02"}, sec |-> 1710460800],
     [text |-> <<"0","3","/","1","5","/","2","0","2","4">>, layouts |-> {"01/02/2006"}, sec |-> 1710460800],
     [text |-> <<"2","0","1","0","-","0","1","-","0","1">>, layouts |-> {"2006-01-02"}, sec |-> 1262304000],
     [text |-> <<"M","a","r","c","h"," ","1","5",","," ","2","0","2","4">>, layouts |-> {"January 2, 2006"}, sec |-> 1710460800],
     [text |-> <<"0","3","/","0","4","/","2","0","2","4">>, layouts |-> {"01/02/2006"}, sec |-> 1709510400],
     [text |-> <<"0","3","/","0","4","/","2","0","2","4">>, layouts |-> {"02/01/2006"}, sec |-> 1712102400],
     [text |-> <<"2","0","2","4","0","3","1","5">>, layouts |-> {"20060102"}, sec |-> 1710460800]}

\* time.Parse(layout, value): a time in UTC, or an error
TimeParses(layout, value) == \E d \in DateTexts : d.text = value /\ layout \in d.layouts

TimeParse(layout, value) ==
    LET d == CHOOSE d \in DateTexts : d.text = value /\ layout \in d.layouts
    IN  MkTime(d.sec, 0, "UTC")

\* Time.Format("2006-01-02T15:04:05Z"): the wall clock of the value in its own
\* location (<<"z","o","n","e">> is the Local one), to the second, followed by a literal Z
TimeFormatZ(t, zone) ==
    WallText(IF t.loc = "Local" THEN t.sec + zone.offset ELSE t.sec) \o <<"Z">>

(***************************************************************************)
(* The format converter.                                                   *)
(***************************************************************************)
Ok(tx) == [ok |-> TRUE, err |-> "", tx |-> tx]

Err(msg) == [ok |-> FALSE, err |-> msg, tx |-> <<>>]

Put(m, k, v) == [x \in DOMAIN m \cup {k} |-> IF x = k THEN v ELSE m[x]]

\* createColumnMapping's table of header spellings per standard field
columnVariations ==
    (<<"t","r","a","n","s","a","c","t","i","o","n","_","i","d">> :> <<<<"t","r","a","n","s","a","c","t","i","o","n","_","i","d">>, <<"i","d">>, <<"t","r","a","n","s","_","i","d">>, <<"t","x","n","_","i","d">>, <<"t","r","a","n","s","a","c","t","i","o","n">>, <<"o","r","d","e","r","_","i","d">>>>) @@
    (<<"c","o","u","n","t","r","y">> :> <<<<"c","o","u","n","t","r","y">>, <<"n","a","t","i","o","n">>, <<"c","o","u","n","t","r","y","_","n","a","m","e">>, <<"c","o","u","n","t","r","y","_","c","o","d","e">>>>) @@
    (<<"r","e","g","i","o","n">> :> <<<<"r","e","g","i","o","n">>, <<"s","t","a","t","e">>, <<"p","r","o","v","i","n","c","e">>, <<"a","r","e","a">>, <<"z","o","n","e">>, <<"t","e","r","r","i","t","o","r","y">>>>) @@
    (<<"p","r","o","d","u","c","t","_","n","a","m","e">> :> <<<<"p","r","o","d","u","c","t","_","n","a","m","e">>, <<"p","r","o","d","u","c","t">>, <<"i","t","e","m">>, <<"i","t","e","m","_","n","a","m","e">>, <<"p","r","o","d","u","c","t","_","t","i","t","l","e">>>>) @@
    (<<"p","r","i","c","e">> :> <<<<"p","r","i","c","e">>, <<"u","n","i","t","_","p","r","i","c","e">>, <<"c","o","s","t">>, <<"a","m","o","u","n","t">>, <<"u","n","i","t","_","c","o","s","t">>, <<"p","r","i","c","e","_","p","e","r","_","u","n","i","t">>>>) @@
    (<<"q","u","a","n","t","i","t","y">> :> <<<<"q","u","a","n","t","i","t","y">>, <<"q","t","y">>, <<"a","m","o","u","n","t">>, <<"c","o","u","n","t">>, <<"u","n","i","t","s">>, <<"n","u","m","b","e","r">>>>) @@
    (<<"t","r","a","n","s","a","c","t","i","o","n","_","d","a","t","e">> :> <<<<"t","r","a","n","s","a","c","t","i","o","n","_","d","a","t","e">>, <<"d","a","t","e">>, <<"t","i","m","e","s","t","a","m","p">>, <<"t","i","m","e">>, <<"t","x","_","d","a","t","e">>, <<"o","r","d","e","r","_","d","a","t","e">>>>)

\* Column indexes count from 1 here (from 0 in the code). The columns are visited in
\* header order, each overwriting what an earlier column bound.
RECURSIVE createColumnMappingFrom(_, _, _)
createColumnMappingFrom(header, i, columnMap) ==
    IF i > Len(header) THEN columnMap
    ELSE LET normalizedCol == ToLower(TrimSpace(header[i]))
             matched == {f \in DOMAIN columnVariations :
                            normalizedCol \in Range(columnVariations[f])}
             direct == Put(columnMap, normalizedCol, i)
         IN  createColumnMappingFrom(header, i + 1,
                [x \in DOMAIN direct \cup matched |-> IF x \in matched THEN i ELSE direct[x]])

createColumnMapping(header) == createColumnMappingFrom(header, 1, EmptyMap)

CurrencySymbols ==
    {"$", "€", "£", "¥", "₹", "₽", "₩", "₪", "₦", "₡", "₵", "₴", "₸", "₱", "₫", "₨"}

\* the characters parseFlexiblePrice removes: currency symbols, thousands separators,
\* spaces, the percent sign
RECURSIVE RemoveChars(_, _)
RemoveChars(s, cs) ==
    IF s = <<>> THEN <<>>
    ELSE IF Head(s) \in cs THEN RemoveChars(Tail(s), cs)
    ELSE <<Head(s)>> \o RemoveChars(Tail(s), cs)

cleanPrice(priceStr) == RemoveChars(priceStr, CurrencySymbols \cup {",", " ", "%"})

parseFlexiblePriceOk(priceStr) == IsFloatText(cleanPrice(priceStr))

parseFlexiblePrice(cfg, priceStr) ==
    FloatTimesTrunc(FloatValue(cleanPrice(priceStr)), cfg.PriceMultiplier)

additionalFormats ==
    <<"January 2, 2006", "Jan 2, 2006 15:04:05", "2006-01-02T15:04:05.000Z",
      "2006-01-02T15:04:05.000000Z", "Mon Jan 2 15:04:05 MST 2006",
      "Mon, 02 Jan 2006 15:04:05 MST">>

\* timestamp > 1e10, decided on the digits (the value may exceed the model's integers)
AboveTenBillionInclusive(s) ==
    ~(s # <<>> /\ Head(s) = "-") /\ Len(StripLeadingZeros(Unsigned(s))) >= 11

AboveTenBillion(s) ==
    LET d == StripLeadingZeros(Unsigned(s))
    IN  /\ ~(s # <<>> /\ Head(s) = "-")
        /\ \/ Len(d) > 11
           \/ Len(d) = 11 /\ d # <<"1","0","0","0","0","0","0","0","0","0","0">>

\* time.Unix(timestamp/1000, (timestamp%1000)*1e6) and time.Unix(timestamp, 0): a time
\* in the Local location
UnixSeconds(s) ==
    LET d == StripLeadingZeros(Unsigned(s))
    IN  IF AboveTenBillion(s) THEN SubSeq(d, 1, Len(d) - 3)
        ELSE IF Head(s) = "-" /\ d # <<"0">> THEN <<"-">> \o d
        ELSE d

UnixMillis(s) ==
    LET d == StripLeadingZeros(Unsigned(s))
    IN  IF AboveTenBillion(s) THEN DigitsValue(SubSeq(d, Len(d) - 2, Len(d))) ELSE 0

UnixTime(s) == MkTime(IntValue(UnixSeconds(s)), UnixMillis(s), "Local")

parseFlexibleDateOk(cfg, dateStr) ==
    \/ \E i \in 1..Len(cfg.DateFormats) : TimeParses(cfg.DateFormats[i], dateStr)
    \/ \E i \in 1..Len(additionalFormats) : TimeParses(additionalFormats[i], dateStr)
    \/ IsIntText(dateStr)

parseFlexibleDate(cfg, dateStr) ==
    LET formats == cfg.DateFormats \o additionalFormats
        hits == {i \in 1..Len(formats) : TimeParses(formats[i], dateStr)}
    IN  IF hits # {} THEN TimeParse(formats[CHOOSE i \in hits : \A j \in hits : i <= j], dateStr)
        ELSE UnixTime(dateStr)

\* parseRecordToTransaction's getField
getField(record, columnMap, fieldName) ==
    IF Has(columnMap, fieldName) /\ columnMap[fieldName] <= Len(record)
    THEN TrimSpace(record[columnMap[fieldName]])
    ELSE <<>>

parseRecordToTransaction(cfg, record, columnMap) ==
    LET id == getField(record, columnMap, <<"t","r","a","n","s","a","c","t","i","o","n","_","i","d">>)
        country == getField(record, columnMap, <<"c","o","u","n","t","r","y">>)
        region == getField(record, columnMap, <<"r","e","g","i","o","n">>)
        product == getField(record, columnMap, <<"p","r","o","d","u","c","t","_","n","a","m","e">>)
        priceStr == getField(record, columnMap, <<"p","r","i","c","e">>)
        qty == getField(record, columnMap, <<"q","u","a","n","t","i","t","y">>)
        quantityStr == IF qty = <<>> THEN <<"1">> ELSE qty
        dateStr == getField(record, columnMap, <<"t","r","a","n","s","a","c","t","i","o","n","_","d","a","t","e">>)
    IN  IF id = <<>> THEN Err("transaction ID is required")
        ELSE IF product = <<>> THEN Err("product name is required")
        ELSE IF priceStr = <<>> THEN Err("price is required")
        ELSE IF ~parseFlexiblePriceOk(priceStr) THEN Err("invalid price")
        ELSE IF ~IsIntText(quantityStr) THEN Err("invalid quantity")
        ELSE IF dateStr = <<>> THEN Err("transaction date is required")
        ELSE IF ~parseFlexibleDateOk(cfg, dateStr) THEN Err("invalid date")
        ELSE Ok(Transaction(id,
                            IF country = <<>> THEN cfg.DefaultCountry ELSE country,
                            IF region = <<>> THEN cfg.DefaultRegion ELSE region,
                            product,
                            parseFlexiblePrice(cfg, priceStr),
                            IntValue(quantityStr),
                            parseFlexibleDate(cfg, dateStr)))

\* What a parse returns: the error (or ""), the transactions, and the warnings it
\* printed on standard output.
Parsed(err, transactions, printed) ==
    [err |-> err, transactions |-> transactions, printed |-> printed]

\* A delimited document is its lines, the header first; a line is its cells, or is
\* <<"b","a","d">> when the csv reader rejects it (a stray quote).
RECURSIVE parseCSVFrom(_, _, _, _, _)
parseCSVFrom(cfg, lines, columnMap, n, acc) ==
    IF n > Len(lines) THEN acc
    ELSE IF lines[n].bad THEN Parsed("error reading line", <<>>, acc.printed)
    ELSE LET r == parseRecordToTransaction(cfg, lines[n].cells, columnMap)
         IN  parseCSVFrom(cfg, lines, columnMap, n + 1,
                IF r.ok THEN Parsed("", Append(acc.transactions, r.tx), acc.printed)
                ELSE Parsed("", acc.transactions, Append(acc.printed, r.err)))

parseCSV(cfg, doc) ==
    IF doc.lines = <<>> \/ doc.lines[1].bad THEN Parsed("failed to read header", <<>>, <<>>)
    ELSE parseCSVFrom(cfg, doc.lines, createColumnMapping(doc.lines[1].cells), 2,
                      Parsed("", <<>>, <<>>))

\* mapToTransaction's table of key spellings per field
fieldMappings ==
    [id |-> <<<<"t","r","a","n","s","a","c","t","i","o","n","_","i","d">>, <<"i","d">>, <<"t","r","a","n","s","_","i","d">>, <<"t","x","n","_","i","d">>>>,
     country |-> <<<<"c","o","u","n","t","r","y">>, <<"n","a","t","i","o","n">>, <<"c","o","u","n","t","r","y","_","n","a","m","e">>>>,
     region |-> <<<<"r","e","g","i","o","n">>, <<"s","t","a","t","e">>, <<"p","r","o","v","i","n","c","e">>, <<"a","r","e","a">>>>,
     product_name |-> <<<<"p","r","o","d","u","c","t","_","n","a","m","e">>, <<"p","r","o","d","u","c","t">>, <<"i","t","e","m">>, <<"i","t","e","m","_","n","a","m","e">>>>,
     price |-> <<<<"p","r","i","c","e">>, <<"u","n","i","t","_","p","r","i","c","e">>, <<"c","o","s","t">>, <<"a","m","o","u","n","t">>>>,
     quantity |-> <<<<"q","u","a","n","t","i","t","y">>, <<"q","t","y">>, <<"a","m","o","u","n","t">>, <<"c","o","u","n","t">>>>,
     date |-> <<<<"t","r","a","n","s","a","c","t","i","o","n","_","d","a","t","e">>, <<"d","a","t","e">>, <<"t","i","m","e","s","t","a","m","p">>, <<"t","i","m","e">>>>]

\* A decoded value is a string, [t |-> "str", s |-> text], or a number,
\* [t |-> "num", s |-> its decimal literal] (float64 from JSON; int or float64 from YAML).
StrVal(s) == [t |-> "str", s |-> s]

NumVal(s) == [t |-> "num", s |-> s]

getFieldValue(data, fieldNames) ==
    LET present == {i \in 1..Len(fieldNames) : Has(data, fieldNames[i])}
        val == data[fieldNames[CHOOSE i \in present : \A j \in present : i <= j]]
    IN  IF present = {} THEN <<>>
        ELSE IF val.t = "str" THEN val.s
        ELSE FormatV(FloatValue(val.s))

\* the names that are present and hold a number or a numeric string, in list order
numericHits(data, fieldNames) ==
    {i \in 1..Len(fieldNames) :
        /\ Has(data, fieldNames[i])
        /\ \/ data[fieldNames[i]].t = "num"
           \/ data[fieldNames[i]].t = "str" /\ IsFloatText(data[fieldNames[i]].s)}

getFieldNumericValueOk(data, fieldNames) == numericHits(data, fieldNames) # {}

getFieldNumericValue(data, fieldNames) ==
    LET hits == numericHits(data, fieldNames)
    IN  FloatValue(data[fieldNames[CHOOSE i \in hits : \A j \in hits : i <= j]].s)

mapToTransaction(cfg, data) ==
    LET id == getFieldValue(data, fieldMappings.id)
        country == getFieldValue(data, fieldMappings.country)
        region == getFieldValue(data, fieldMappings.region)
        product == getFieldValue(data, fieldMappings.product_name)
        dateStr == getFieldValue(data, fieldMappings.date)
    IN  IF id = <<>> THEN Err("transaction ID is required")
        ELSE IF product = <<>> THEN Err("product name is required")
        ELSE IF ~getFieldNumericValueOk(data, fieldMappings.price) THEN Err("price is required")
        ELSE IF dateStr = <<>> THEN Err("transaction date is required")
        ELSE IF ~parseFlexibleDateOk(cfg, dateStr) THEN Err("invalid date")
        ELSE Ok(Transaction(id,
                            IF country = <<>> THEN cfg.DefaultCountry ELSE country,
                            IF region = <<>> THEN cfg.DefaultRegion ELSE region,
                            product,
                            FloatTimesTrunc(getFieldNumericValue(data, fieldMappings.price),
                                            cfg.PriceMultiplier),
                            IF getFieldNumericValueOk(data, fieldMappings.quantity)
                            THEN FloatTrunc(getFieldNumericValue(data, fieldMappings.quantity))
                            ELSE 1,
                            parseFlexibleDate(cfg, dateStr)))

\* A decoded document: its shape ("array", a "transactions" or "data" wrapper around an
\* array, a "single" record object, a "scalar", "malformed" text whose first value is
\* incomplete or invalid, or a "trailing" one) and its items; an
\* item is an object, [obj |-> TRUE, fields |-> key :> value ...], or another value.
Object(fields) == [obj |-> TRUE, fields |-> fields]

RECURSIVE extractArray(_, _, _, _)
extractArray(cfg, items, i, acc) ==
    IF i > Len(items) THEN acc
    ELSE IF ~items[i].obj THEN extractArray(cfg, items, i + 1, acc)
    ELSE LET r == mapToTransaction(cfg, items[i].fields)
         IN  extractArray(cfg, items, i + 1,
                IF r.ok THEN Parsed("", Append(acc.transactions, r.tx), acc.printed)
                ELSE Parsed("", acc.transactions, Append(acc.printed, r.err)))

extractTransactionsFromData(cfg, doc) ==
    CASE doc.shape \in {"array", "transactions", "data"} ->
            extractArray(cfg, doc.items, 1, Parsed("", <<>>, <<>>))
      [] doc.shape = "single" ->
            LET r == mapToTransaction(cfg, doc.items[1].fields)
            IN  IF r.ok THEN Parsed("", <<r.tx>>, <<>>) ELSE Parsed(r.err, <<>>, <<>>)
      [] OTHER -> Parsed("unsupported data structure type", <<>>, <<>>)

IsDelimited(doc) == doc.syntax \in {"csv", "tsv"}

\* parseJSON and parseYAML: decode, then extract. Delimited text does not decode to
\* a list or a map.
\* decoder.Decode(&data) reads the first value of the text and leaves what follows it
\* unread: of a "trailing" document (a complete value followed by text that is no
\* JSON) it yields the value
Decoded(doc) == IF doc.shape = "trailing" THEN doc.items[1] ELSE doc

parseStructured(cfg, doc) ==
    IF IsDelimited(doc) \/ doc.shape = "malformed" THEN Parsed("failed to parse", <<>>, <<>>)
    ELSE extractTransactionsFromData(cfg, Decoded(doc))

\* ConvertToTransactions, on a document written in the syntax the format names (or,
\* for the structured formats, on any document)
ConvertToTransactions(cfg, doc, format) ==
    CASE format \in {"csv", "tsv"} -> parseCSV(cfg, doc)
      [] format \in {"json", "yaml"} -> parseStructured(cfg, doc)
      [] OTHER -> Parsed("unsupported format", <<>>, <<>>)

\* ExportToFormat. The CSV and TSV writers emit the fixed header and one line per
\* transaction; the JSON encoder names each field by its Go name (the struct has no
\* tags), the YAML encoder by its lower-cased Go name.
exportHeader ==
    <<<<"t","r","a","n","s","a","c","t","i","o","n","_","i","d">>, <<"c","o","u","n","t","r","y">>, <<"r","e","g","i","o","n">>, <<"p","r","o","d","u","c","t","_","n","a","m","e">>, <<"p","r","i","c","e">>, <<"q","u","a","n","t","i","t","y">>,
      <<"t","r","a","n","s","a","c","t","i","o","n","_","d","a","t","e">>>>

Line(cells) == [bad |-> FALSE, cells |-> cells]

exportToCSV(transactions, syntax, zone) ==
    [syntax |-> syntax,
     lines |-> <<Line(exportHeader)>> \o
        [i \in 1..Len(transactions) |->
            Line(<<transactions[i].ID, transactions[i].Country, transactions[i].Region,
                   transactions[i].ProductName, FormatCents(transactions[i].UnitPriceCents),
                   FormatD(transactions[i].Quantity),
                   TimeFormatZ(transactions[i].TxTime, zone)>>)]]

\* Time.MarshalJSON / the YAML timestamp: RFC 3339, with the zone of the value
TimeFormatRFC3339(t, zone) ==
    IF t.loc = "Local" THEN WallText(t.sec + zone.offset) \o zone.suffix
    ELSE WallText(t.sec) \o <<"Z">>

exportToJSON(transactions, zone) ==
    [syntax |-> "json", shape |-> "array",
     items |-> [i \in 1..Len(transactions) |->
        Object((<<"I","D">> :> StrVal(transactions[i].ID)) @@
               (<<"C","o","u","n","t","r","y">> :> StrVal(transactions[i].Country)) @@
               (<<"R","e","g","i","o","n">> :> StrVal(transactions[i].Region)) @@
               (<<"P","r","o","d","u","c","t","N","a","m","e">> :> StrVal(transactions[i].ProductName)) @@
               (<<"U","n","i","t","P","r","i","c","e","C","e","n","t","s">> :> NumVal(FormatD(transactions[i].UnitPriceCents))) @@
               (<<"Q","u","a","n","t","i","t","y">> :> NumVal(FormatD(transactions[i].Quantity))) @@
               (<<"T","x","T","i","m","e">> :> StrVal(TimeFormatRFC3339(transactions[i].TxTime, zone))))]]

exportToYAML(transactions, zone) ==
    [syntax |-> "yaml", shape |-> "array",
     items |-> [i \in 1..Len(transactions) |->
        Object((<<"i","d">> :> StrVal(transactions[i].ID)) @@
               (<<"c","o","u","n","t","r","y">> :> StrVal(transactions[i].Country)) @@
               (<<"r","e","g","i","o","n">> :> StrVal(transactions[i].Region)) @@
               (<<"p","r","o","d","u","c","t","n","a","m","e">> :> StrVal(transactions[i].ProductName)) @@
               (<<"u","n","i","t","p","r","i","c","e","c","e","n","t","s">> :> NumVal(FormatD(transactions[i].UnitPriceCents))) @@
               (<<"q","u","a","n","t","i","t","y">> :> NumVal(FormatD(transactions[i].Quantity))) @@
               (<<"t","x","t","i","m","e">> :> StrVal(TimeFormatRFC3339(transactions[i].TxTime, zone))))]]

ExportToFormat(transactions, format, zone) ==
    CASE format = "csv" -> exportToCSV(transactions, "csv", zone)
      [] format = "tsv" -> exportToCSV(transactions, "tsv", zone)
      [] format = "json" -> exportToJSON(transactions, zone)
      [] format = "yaml" -> exportToYAML(transactions, zone)

(***************************************************************************)
(* The validators.  Each Validate returns "" or the error.                 *)
(***************************************************************************)
\* time.Now() and the two dates DataTypeValidator derives from it,
\* now.AddDate(-10, 0, 0) and now.AddDate(1, 0, 0): 3 November 2026, 2016 and 2027
Clock == [now |-> 1793664000, past |-> 1478131200, future |-> 1825200000]

RequiredFieldValidatorValidate(tx) ==
    IF tx.ID = <<>> THEN "transaction ID is required"
    ELSE IF tx.Country = <<>> THEN "country is required"
    ELSE IF tx.ProductName = <<>> THEN "product name is required"
    ELSE IF tx.UnitPriceCents <= 0 THEN "unit price must be positive"
    ELSE IF tx.Quantity <= 0 THEN "quantity must be positive"
    ELSE IF IsZero(tx.TxTime) THEN "transaction time is required"
    ELSE ""

\* ^[a-zA-Z0-9_-]+$
MatchesID(s) == s # <<>> /\ \A i \in 1..Len(s) : IsLetter(s[i]) \/ IsDigit(s[i]) \/ s[i] \in {"_", "-"}

\* ^[a-zA-Z\s\.\-']+$
MatchesCountry(s) ==
    s # <<>> /\ \A i \in 1..Len(s) : IsLetter(s[i]) \/ IsSpace(s[i]) \/ s[i] \in {".", "-", "'"}

\* Time.Before and Time.After compare instants
Before(t, sec) == t.zero \/ t.sec < sec

After(t, sec) == ~t.zero /\ (t.sec > sec \/ (t.sec = sec /\ t.ms > 0))

DataTypeValidatorValidate(tx) ==
    IF ~MatchesID(tx.ID) THEN "transaction ID contains invalid characters"
    ELSE IF ~MatchesCountry(tx.Country) THEN "country name contains invalid characters"
    ELSE IF tx.UnitPriceCents > 10000000 THEN "unit price exceeds reasonable maximum"
    ELSE IF tx.Quantity > 1000000 THEN "quantity exceeds reasonable maximum"
    ELSE IF Before(tx.TxTime, Clock.past) THEN "transaction date is too far in the past"
    ELSE IF After(tx.TxTime, Clock.future) THEN "transaction date is in the future"
    ELSE ""

RangeValidatorValidate(tx) ==
    IF tx.UnitPriceCents < 1 \/ tx.UnitPriceCents > 50000000
    THEN "unit price is outside acceptable range"
    ELSE IF tx.Quantity < 1 \/ tx.Quantity > 100000
    THEN "quantity is outside acceptable range"
    ELSE ""

\* UniquenessValidator.Validate against the validator's seenIDs: the error, and the
\* set it leaves
UniquenessValidatorValidate(seen, tx) ==
    IF tx.ID \in seen
    THEN [err |-> "duplicate transaction ID", seenIDs |-> seen]
    ELSE [err |-> "", seenIDs |-> seen \cup {tx.ID}]

(***************************************************************************)
(* The optimizations.                                                      *)
(***************************************************************************)
\* The removal, were it to remember the last identifier only.
RECURSIVE DuplicateRemovalFromLast(_, _, _, _)
DuplicateRemovalFromLast(transactions, i, seen, unique) ==
    IF i > Len(transactions) THEN unique
    ELSE IF transactions[i].ID \notin seen
         THEN DuplicateRemovalFromLast(transactions, i + 1, {transactions[i].ID},
                                       Append(unique, transactions[i]))
         ELSE DuplicateRemovalFromLast(transactions, i + 1, seen, unique)

\* DuplicateRemoval.Optimize: the loop from record i on, with the identifiers seen and
\* the records kept so far
RECURSIVE DuplicateRemovalFrom(_, _, _, _)
DuplicateRemovalFrom(transactions, i, seen, unique) ==
    IF i > Len(transactions) THEN unique
    ELSE IF transactions[i].ID \notin seen
         THEN DuplicateRemovalFrom(transactions, i + 1, seen \cup {transactions[i].ID},
                                   Append(unique, transactions[i]))
         ELSE DuplicateRemovalFrom(transactions, i + 1, seen, unique)

DuplicateRemovalOptimize(transactions) == DuplicateRemovalFrom(transactions, 1, {}, <<>>)

\* the composite key "%s:%s:%s:%s:%d:%d:%d", with the time as Time.Unix()
dedupKey(tx) ==
    tx.ID \o <<":">> \o tx.Country \o <<":">> \o tx.Region \o <<":">> \o tx.ProductName \o <<":">>
    \o FormatD(tx.UnitPriceCents) \o <<":">> \o FormatD(tx.Quantity) \o <<":">>
    \o (IF tx.TxTime.zero THEN <<"-","6","2","1","3","5","5","9","6","8","0","0">> ELSE FormatD(tx.TxTime.sec))

RECURSIVE DataDeduplicationFrom(_, _, _, _)
DataDeduplicationFrom(transactions, i, seen, unique) ==
    IF i > Len(transactions) THEN unique
    ELSE IF dedupKey(transactions[i]) \notin seen
         THEN DataDeduplicationFrom(transactions, i + 1,
                                    seen \cup {dedupKey(transactions[i])},
                                    Append(unique, transactions[i]))
         ELSE DataDeduplicationFrom(transactions, i + 1, seen, unique)

DataDeduplicationOptimize(transactions) == DataDeduplicationFrom(transactions, 1, {}, <<>>)

IndexOptimizationOptimize(transactions) == transactions

\* optimizeTransactions: the three registered optimizations, in registration order
optimizeTransactions(transactions) ==
    IndexOptimizationOptimize(DataDeduplicationOptimize(DuplicateRemovalOptimize(transactions)))

(***************************************************************************)
(* The quality scorer.  A float64 ratio is kept as [num, den].             *)
(***************************************************************************)
Ratio(num, den) == [num |-> num, den |-> den]

Count(transactions, P(_)) == Cardinality({i \in 1..Len(transactions) : P(transactions[i])})

ZeroMetrics ==
    [Completeness |-> Ratio(0, 1), Consistency |-> Ratio(0, 1), Validity |-> Ratio(0, 1),
     Uniqueness |-> Ratio(0, 1), FieldMetrics |-> EmptyMap]

\* The scorer, were the overall completeness the mean over the fields some record has.
calculateDataQualityOverScored(transactions) ==
    LET n == Len(transactions)
        scores ==
            [id |-> Count(transactions, LAMBDA tx : tx.ID # <<>>),
             country |-> Count(transactions, LAMBDA tx : tx.Country # <<>>),
             region |-> Count(transactions, LAMBDA tx : tx.Region # <<>>),
             product_name |-> Count(transactions, LAMBDA tx : tx.ProductName # <<>>),
             price |-> Count(transactions, LAMBDA tx : tx.UnitPriceCents > 0),
             quantity |-> Count(transactions, LAMBDA tx : tx.Quantity > 0),
             date |-> Count(transactions, LAMBDA tx : ~IsZero(tx.TxTime))]
        \* completenessScores holds a key only for a field some record has
        scored == {f \in DOMAIN scores : scores[f] > 0}
        RECURSIVE Sum(_)
        Sum(fs) == IF fs = {} THEN 0
                   ELSE LET f == CHOOSE f \in fs : TRUE IN scores[f] + Sum(fs \ {f})
    IN  IF n = 0 THEN ZeroMetrics
        ELSE [Completeness |-> Ratio(Sum(scored), Cardinality(scored) * n),
              Consistency |-> Ratio(95, 100),
              Validity |-> Ratio(Count(transactions,
                                       LAMBDA tx : tx.UnitPriceCents >= 0 /\ tx.Quantity >= 0), n),
              Uniqueness |-> Ratio(Cardinality({transactions[i].ID : i \in 1..n}), n),
              FieldMetrics |-> [f \in scored |-> Ratio(scores[f], n)]]

calculateDataQuality(transactions) ==
    LET n == Len(transactions)
        scores ==
            [id |-> Count(transactions, LAMBDA tx : tx.ID # <<>>),
             country |-> Count(transactions, LAMBDA tx : tx.Country # <<>>),
             region |-> Count(transactions, LAMBDA tx : tx.Region # <<>>),
             product_name |-> Count(transactions, LAMBDA tx : tx.ProductName # <<>>),
             price |-> Count(transactions, LAMBDA tx : tx.UnitPriceCents > 0),
             quantity |-> Count(transactions, LAMBDA tx : tx.Quantity > 0),
             date |-> Count(transactions, LAMBDA tx : ~IsZero(tx.TxTime))]
        \* completenessScores holds a key only for a field some record has
        scored == {f \in DOMAIN scores : scores[f] > 0}
        RECURSIVE Sum(_)
        Sum(fs) == IF fs = {} THEN 0
                   ELSE LET f == CHOOSE f \in fs : TRUE IN scores[f] + Sum(fs \ {f})
    IN  IF n = 0 THEN ZeroMetrics
        ELSE [Completeness |-> Ratio(Sum(scored), 7 * n),
              Consistency |-> Ratio(95, 100),
              Validity |-> Ratio(Count(transactions,
                                       LAMBDA tx : tx.UnitPriceCents >= 0 /\ tx.Quantity >= 0), n),
              Uniqueness |-> Ratio(Cardinality({transactions[i].ID : i \in 1..n}), n),
              FieldMetrics |-> [f \in scored |-> Ratio(scores[f], n)]]

(***************************************************************************)
(* The engine's pipeline and the FlexibleDataHandler.                      *)
(***************************************************************************)
\* A warning of the result: "<kind> <name> failed for record <record>: <err>", the
\* record numbered from 0
Warning(kind, name, record, err) ==
    [kind |-> kind, name |-> name, record |-> record, err |-> err]

\* The loop, were a failing stage to end it: the stages after it are not applied.
RECURSIVE applyTransformationsAborting(_, _, _, _, _, _, _)
applyTransformationsAborting(cfg, ts, k, tx, i, fails, warnings) ==
    IF k > Len(ts) THEN [tx |-> tx, warnings |-> warnings]
    ELSE LET r == Transform(ts[k], cfg, tx, i \in fails)
         IN  IF r.err
             THEN [tx |-> tx,
                   warnings |-> Append(warnings, Warning("Transformation", ts[k], i - 1, "failed"))]
             ELSE applyTransformationsAborting(cfg, ts, k + 1, r.tx, i, fails, warnings)

\* the loop over engine.transformations for record i: a failing stage adds a warning
\* and is skipped, the later stages still run
RECURSIVE applyTransformations(_, _, _, _, _, _, _)
applyTransformations(cfg, ts, k, tx, i, fails, warnings) ==
    IF k > Len(ts) THEN [tx |-> tx, warnings |-> warnings]
    ELSE LET r == Transform(ts[k], cfg, tx, i \in fails)
         IN  IF r.err
             THEN applyTransformations(cfg, ts, k + 1, tx, i, fails,
                    Append(warnings, Warning("Transformation", ts[k], i - 1, "failed")))
             ELSE applyTransformations(cfg, ts, k + 1, r.tx, i, fails, warnings)

\* The validators, were a failure to alter the record: a record a validator rejects
\* loses its identifier.
validateRecordAltering(seen, tx, i) ==
    LET u == UniquenessValidatorValidate(seen, tx)
        errs == <<<<"RequiredFieldValidator", RequiredFieldValidatorValidate(tx)>>,
                  <<"DataTypeValidator", DataTypeValidatorValidate(tx)>>,
                  <<"RangeValidator", RangeValidatorValidate(tx)>>,
                  <<"UniquenessValidator", u.err>>>>
        failed == SelectSeq(errs, LAMBDA e : e[2] # "")
    IN  [tx |-> IF failed = <<>> THEN tx ELSE [tx EXCEPT !.ID = <<>>],
         warnings |-> [j \in 1..Len(failed) |-> Warning("Validation", failed[j][1], i - 1, failed[j][2])],
         seenIDs |-> u.seenIDs]

\* the loop over engine.validators for record i: every validator runs on the record
\* (passed by pointer), every failure adds a warning
validateRecord(seen, tx, i) ==
    LET u == UniquenessValidatorValidate(seen, tx)
        errs == <<<<"RequiredFieldValidator", RequiredFieldValidatorValidate(tx)>>,
                  <<"DataTypeValidator", DataTypeValidatorValidate(tx)>>,
                  <<"RangeValidator", RangeValidatorValidate(tx)>>,
                  <<"UniquenessValidator", u.err>>>>
        failed == SelectSeq(errs, LAMBDA e : e[2] # "")
    IN  [tx |-> tx,
         warnings |-> [j \in 1..Len(failed) |-> Warning("Validation", failed[j][1], i - 1, failed[j][2])],
         seenIDs |-> u.seenIDs]

\* the per-record loop of ProcessDataFile: transformedTransactions, the warnings and
\* the validator's set after record i - 1, extended by record i
RECURSIVE processRecords(_, _, _, _, _, _)
processRecords(cfg, ts, transactions, i, fails, acc) ==
    IF i > Len(transactions) THEN acc
    ELSE LET t == applyTransformations(cfg, ts, 1, transactions[i], i, fails, <<>>)
             v == IF cfg.EnableValidation THEN validateRecord(acc.seenIDs, t.tx, i)
                  ELSE [tx |-> t.tx, warnings |-> <<>>, seenIDs |-> acc.seenIDs]
         IN  processRecords(cfg, ts, transactions, i + 1, fails,
                [transactions |-> Append(acc.transactions, v.tx),
                 warnings |-> acc.warnings \o t.warnings \o v.warnings,
                 seenIDs |-> v.seenIDs])

\* A file: whether it can be opened, its extension, the kind DetectFormat makes of its
\* first 1024 bytes, and the document it holds.
detectFileFormat(file) ==
    CASE file.ext = ".csv" -> "csv"
      [] file.ext = ".tsv" -> "tsv"
      [] file.ext = ".json" -> "json"
      [] file.ext \in {".yaml", ".yml"} -> "yaml"
      [] file.ext = ".xml" -> "xml"
      [] OTHER -> file.sniffed

\* What a processing call returns (records, result, error), with what it printed and
\* the set it leaves in the engine's UniquenessValidator.
NilResult == [nil |-> TRUE]

Returned(records, result, err, printed, seen) ==
    [records |-> records, result |-> result, err |-> err, printed |-> printed,
     seenIDs |-> seen]

\* ProcessingResult as ProcessDataFile fills it
ProcessingResult(original, transformed, warnings, ts, quality) ==
    [nil |-> FALSE,
     OriginalRecords |-> original,
     TransformedRecords |-> transformed,
     SkippedRecords |-> 0,
     Errors |-> <<>>,
     Warnings |-> warnings,
     Transformations |-> ts,
     DataQuality |-> quality]

\* ProcessDataFile from the optimization step on: records are the final transactions
finishProcessing(cfg, ts, parsed, p, records) ==
    Returned(records,
             ProcessingResult(Len(parsed.transactions),
                              IF cfg.EnableOptimization THEN Len(records)
                              ELSE Len(parsed.transactions),
                              p.warnings, ts, calculateDataQuality(records)),
             "", parsed.printed, p.seenIDs)

\* ProcessDataFile after the record loop, p being what the loop leaves
optimizeProcessed(cfg, ts, parsed, p) ==
    finishProcessing(cfg, ts, parsed, p,
                     IF cfg.EnableOptimization THEN optimizeTransactions(p.transactions)
                     ELSE p.transactions)

\* ProcessDataFile after ConvertToTransactions, parsed being what the converter returns
processParsed(cfg, ts, seen, fails, parsed) ==
    IF parsed.err # ""
    THEN Returned(<<>>, NilResult, "failed to convert data", parsed.printed, seen)
    ELSE optimizeProcessed(cfg, ts, parsed,
            processRecords(cfg, ts, parsed.transactions, 1, fails,
                [transactions |-> <<>>, warnings |-> <<>>, seenIDs |-> seen]))

ProcessDataFile(cfg, ts, seen, file, fails) ==
    IF ~file.exists THEN Returned(<<>>, NilResult, "failed to open file", <<>>, seen)
    ELSE processParsed(cfg, ts, seen, fails,
                       ConvertToTransactions(cfg, file.doc, detectFileFormat(file)))

\* ProcessDataStream after ConvertToTransactions
streamParsed(seen, parsed) ==
    IF parsed.err # ""
    THEN Returned(<<>>, NilResult, "failed to convert stream data", parsed.printed, seen)
    ELSE Returned(parsed.transactions,
                  ProcessingResult(Len(parsed.transactions), Len(parsed.transactions),
                                   <<>>, <<>>, calculateDataQuality(parsed.transactions)),
                  "", parsed.printed, seen)

ProcessDataStream(cfg, seen, doc, format) ==
    streamParsed(seen, ConvertToTransactions(cfg, doc, format))

(***************************************************************************)
(* The handler, called sequentially.                                       *)
(***************************************************************************)
\* getDefaultConfig
DefaultConfig ==
    [EnableValidation |-> TRUE,
     EnableOptimization |-> TRUE,
     DateFormats |-> <<"2006-01-02T15:04:05Z", "2006-01-02", "2006-01-02 15:04:05",
                       "01/02/2006", "02-01-2006", "2006/01/02", "Jan 2, 2006",
                       "2 Jan 2006", "2006-01-02T15:04:05-07:00">>,
     NullValues |-> <<<<>>, <<"N","U","L","L">>, <<"n","u","l","l">>, <<"N","/","A">>, <<"n","/","a">>, <<"N","A">>, <<"n","a">>, <<"-">>, <<"N","o","n","e">>, <<"n","o","n","e">>,
                      <<"u","n","d","e","f","i","n","e","d">>, <<"U","N","D","E","F","I","N","E","D">>>>,
     DefaultCountry |-> <<>>,
     DefaultRegion |-> <<>>,
     PriceMultiplier |-> 100,
     CustomMappings |->
        (<<"u","s","a">> :> <<"U","n","i","t","e","d"," ","S","t","a","t","e","s">>) @@ (<<"u","s">> :> <<"U","n","i","t","e","d"," ","S","t","a","t","e","s">>) @@
        (<<"a","m","e","r","i","c","a">> :> <<"U","n","i","t","e","d"," ","S","t","a","t","e","s">>) @@ (<<"u","k">> :> <<"U","n","i","t","e","d"," ","K","i","n","g","d","o","m">>) @@
        (<<"b","r","i","t","a","i","n">> :> <<"U","n","i","t","e","d"," ","K","i","n","g","d","o","m">>) @@ (<<"e","n","g","l","a","n","d">> :> <<"U","n","i","t","e","d"," ","K","i","n","g","d","o","m">>) @@
        (<<"r","e","g","i","o","n","_","n">> :> <<"N","o","r","t","h">>) @@ (<<"r","e","g","i","o","n","_","s">> :> <<"S","o","u","t","h">>) @@
        (<<"r","e","g","i","o","n","_","e">> :> <<"E","a","s","t">>) @@ (<<"r","e","g","i","o","n","_","w">> :> <<"W","e","s","t">>) @@
        (<<"r","e","g","i","o","n","_","n","e">> :> <<"N","o","r","t","h","e","a","s","t">>) @@ (<<"r","e","g","i","o","n","_","n","w">> :> <<"N","o","r","t","h","w","e","s","t">>) @@
        (<<"r","e","g","i","o","n","_","s","e">> :> <<"S","o","u","t","h","e","a","s","t">>) @@ (<<"r","e","g","i","o","n","_","s","w">> :> <<"S","o","u","t","h","w","e","s","t">>)]

\* the configurations of the model: the default one, and one with validation and
\* optimization switched off
Configs ==
    {DefaultConfig,
     [DefaultConfig EXCEPT !.EnableValidation = FALSE, !.EnableOptimization = FALSE]}

\* The rows and objects the documents of the model are made of.
RowA == Line(<<<<"T","X","1">>, <<"u","s","a">>, <<"n">>, <<"w","i","d","g","e","t"," ","a">>, <<"$","1","0",".","5","0">>, <<"2">>, <<"2","0","2","4","-","0","3","-","1","5">>>>)

RowB == Line(<<<<"T","X","2">>, <<"u","k">>, <<"s">>, <<"g","a","d","g","e","t">>, <<"8",".","9","9">>, <<>>, <<"1","7","1","0","5","0","3","4","4","5">>>>)

RowOld == Line(<<<<"T","X","1">>, <<"u","k">>, <<>>, <<"t","o","o","l"," ","k","i","t">>, <<"0",".","2","9">>, <<"0">>, <<"2","0","1","0","-","0","1","-","0","1">>>>)

RowNoID == Line(<<<<>>, <<"u","s","a">>, <<"n">>, <<"w","i","d","g","e","t"," ","a">>, <<"1","0",".","5","0">>, <<"1">>, <<"2","0","2","4","-","0","3","-","1","5">>>>)

RowBadPrice == Line(<<<<"T","X","3">>, <<"u","s","a">>, <<"n">>, <<"w","i","d","g","e","t"," ","a">>, <<"a","b","c">>, <<"1">>, <<"2","0","2","4","-","0","3","-","1","5">>>>)

BadLine == [bad |-> TRUE, cells |-> <<>>]

CsvDoc(rows) == [syntax |-> "csv", lines |-> <<Line(exportHeader)>> \o rows]

ObjA ==
    Object((<<"t","r","a","n","s","a","c","t","i","o","n","_","i","d">> :> StrVal(<<"T","X","1">>)) @@ (<<"c","o","u","n","t","r","y">> :> StrVal(<<"u","s","a">>)) @@
           (<<"r","e","g","i","o","n">> :> StrVal(<<"n">>)) @@ (<<"p","r","o","d","u","c","t","_","n","a","m","e">> :> StrVal(<<"w","i","d","g","e","t"," ","a">>)) @@
           (<<"p","r","i","c","e">> :> NumVal(<<"1","0",".","5","0">>)) @@ (<<"q","u","a","n","t","i","t","y">> :> NumVal(<<"2">>)) @@
           (<<"t","r","a","n","s","a","c","t","i","o","n","_","d","a","t","e">> :> StrVal(<<"2","0","2","4","-","0","3","-","1","5">>)))

ObjB ==
    Object((<<"i","d">> :> StrVal(<<"T","X","2">>)) @@ (<<"n","a","t","i","o","n">> :> StrVal(<<"u","k">>)) @@
           (<<"s","t","a","t","e">> :> StrVal(<<"s">>)) @@ (<<"i","t","e","m">> :> StrVal(<<"g","a","d","g","e","t">>)) @@
           (<<"c","o","s","t">> :> StrVal(<<"8",".","9","9">>)) @@ (<<"d","a","t","e">> :> StrVal(<<"1","7","1","0","5","0","3","4","4","5">>)))

ObjNoID ==
    Object((<<"c","o","u","n","t","r","y">> :> StrVal(<<"u","s","a">>)) @@ (<<"p","r","o","d","u","c","t","_","n","a","m","e">> :> StrVal(<<"w","i","d","g","e","t"," ","a">>)) @@
           (<<"p","r","i","c","e">> :> NumVal(<<"1","0",".","5","0">>)) @@ (<<"t","r","a","n","s","a","c","t","i","o","n","_","d","a","t","e">> :> StrVal(<<"2","0","2","4","-","0","3","-","1","5">>)))

Structured(syntax, shape, items) == [syntax |-> syntax, shape |-> shape, items |-> items]

File(ext, doc) == [exists |-> TRUE, ext |-> ext, sniffed |-> doc.syntax, doc |-> doc]

Files ==
    {File(".csv", CsvDoc(<<RowA, RowB>>)),
     File(".csv", CsvDoc(<<RowA, RowOld>>)),
     File(".csv", CsvDoc(<<RowNoID, RowBadPrice>>)),
     File(".csv", CsvDoc(<<RowA, BadLine>>)),
     File("", CsvDoc(<<RowB>>)),
     File(".json", Structured("json", "array", <<ObjA, ObjNoID>>)),
     File(".json", Structured("json", "single", <<ObjNoID>>)),
     File(".json", Structured("json", "single", <<ObjB>>)),
     File(".yaml", Structured("yaml", "transactions", <<ObjA, ObjA>>)),
     File(".xml", Structured("xml", "malformed", <<>>)),
     [File(".csv", CsvDoc(<<RowA>>)) EXCEPT !.exists = FALSE]}

\* the caller-registered stages the model registers
ExtraTransformations == {"CustomTransformation", "TaxCalculator"}

\* the records on which a registered CustomTransformation fails
FailSets == {{}, {1}}

NoCall == [op |-> "none"]

\* A call as <<"i","n","p","u","t">> records it: the operation and its arguments, with the engine's
\* stage list and the validator's set as the call found them.
Call(op, file, fails) ==
    [op |-> op, file |-> file, fails |-> fails, ts |-> transformations, seen |-> seenIDs]

Init ==
    /\ config \in Configs
    /\ transformations = DefaultTransformations
    /\ seenIDs = {}
    /\ input = NoCall
    /\ output = NoCall
    /\ pc = 0

\* engine.RegisterTransformation(t)
RegisterTransformation(t) ==
    /\ t \notin Range(transformations)
    /\ transformations' = Append(transformations, t)
    /\ UNCHANGED <<config, seenIDs, input, output, pc>>

\* fdh.ProcessDataFile(path); the CustomTransformation, when registered, fails on the
\* records of the set fails
CallProcessDataFile(file, fails) ==
    /\ pc < MaxCalls
    /\ fails # {} => "CustomTransformation" \in Range(transformations)
    /\ output' = ProcessDataFile(config, transformations, seenIDs, file, fails)
    /\ seenIDs' = output'.seenIDs
    /\ input' = Call("ProcessDataFile", file, fails)
    /\ pc' = pc + 1
    /\ UNCHANGED <<config, transformations>>

\* fdh.ProcessDataStream(reader, format), the format being the one of the document
CallProcessDataStream(file) ==
    /\ pc < MaxCalls
    /\ file.exists
    /\ output' = ProcessDataStream(config, seenIDs, file.doc, file.doc.syntax)
    /\ seenIDs' = output'.seenIDs
    /\ input' = Call("ProcessDataStream", file, {})
    /\ pc' = pc + 1
    /\ UNCHANGED <<config, transformations>>

Next ==
    \/ \E t \in ExtraTransformations : RegisterTransformation(t)
    \/ \E file \in Files, fails \in FailSets : CallProcessDataFile(file, fails)
    \/ \E file \in Files : CallProcessDataStream(file)

Spec == Init /\ [][Next]_vars

(***************************************************************************)
(* Properties of the handler's calls.                                      *)
(***************************************************************************)
\* the records of the last call as the validators saw them: parsed and transformed,
\* not yet optimized
Validated ==
    processRecords(config, input.ts,
        ConvertToTransactions(config, input.file.doc, detectFileFormat(input.file)).transactions,
        1, input.fails, [transactions |-> <<>>, warnings |-> <<>>, seenIDs |-> {}]).transactions

WarningsNaming(name) == SelectSeq(output.result.Warnings, LAMBDA w : w.name = name)

\* C1: the UniquenessValidator's identifier set is scoped to one run: a record of a
\* batch gets a duplicate-ID warning only if its identifier occurred earlier in the
\* same batch, whatever the handler processed before.
C1_UniquenessScopedToRun ==
    (input.op = "ProcessDataFile" /\ output.err = "") =>
        \A w \in Range(WarningsNaming("UniquenessValidator")) :
            \E j \in 1..w.record : Validated[j].ID = Validated[w.record + 1].ID

\* C5: every record dropped at parse time is counted in the result's SkippedRecords
\* and described in the result's Errors or Warnings (by an entry of kind "Skipped"
\* carrying the parser's reason), for both processing calls.
C5_DroppedRecordsReported ==
    (input.op # "none" /\ output.err = "") =>
        /\ output.result.SkippedRecords = Len(output.printed)
        /\ \A k \in 1..Len(output.printed) :
              \E m \in Range(output.result.Errors) \cup Range(output.result.Warnings) :
                  m.kind = "Skipped" /\ m.err = output.printed[k]

\* The input shapes the handler accepts: delimited text with a readable header and
\* readable lines, a list of objects, a wrapper object, a single object.
AcceptedShape(file) ==
    /\ file.exists
    /\ detectFileFormat(file) = file.doc.syntax
    /\ IF IsDelimited(file.doc)
       THEN file.doc.lines # <<>> /\ \A n \in 1..Len(file.doc.lines) : ~file.doc.lines[n].bad
       ELSE /\ file.doc.syntax \in {"json", "yaml"}
            /\ file.doc.shape \in {"array", "transactions", "data", "single"}

\* C6: a per-record problem never aborts the batch: on every accepted input shape
\* the call returns no error, whatever the records hold.
C6_RecordProblemNeverAborts ==
    (input.op # "none" /\ AcceptedShape(input.file)) => output.err = ""

\* the last call, made again with the configuration cfg and the stage list ts, no
\* stage failing unless <<"f","a","i","l","s">> is kept
Again(cfg, ts, fails) == ProcessDataFile(cfg, ts, input.seen, input.file, fails)

\* C7: validation is observational: the records ProcessDataFile returns with
\* validation enabled are the ones it returns with validation disabled.
C7_ValidationObservational ==
    input.op = "ProcessDataFile" =>
        output.records =
            Again([config EXCEPT !.EnableValidation = ~@], input.ts, input.fails).records

\* C7's case: validation is on, a validator has failed on a record, and the call
\* returned records
C7_Witness ==
    /\ input.op = "ProcessDataFile"
    /\ config.EnableValidation
    /\ output.err = ""
    /\ \E w \in Range(output.result.Warnings) : w.kind = "Validation"
    /\ output.records # <<>>

Position(ts, name) == CHOOSE k \in 1..Len(ts) : ts[k] = name

C9_StreamSameAsFile ==
    input.op = "ProcessDataStream" =>
        LET f == Again(config, input.ts, {})
        IN  /\ output.err = "" <=> f.err = ""
            /\ output.records = f.records
            /\ output.err = "" =>
                 /\ output.result.Warnings = f.result.Warnings
                 /\ output.result.Transformations = f.result.Transformations

(***************************************************************************)
(* The registered transformations, applied again to their own output.      *)
(***************************************************************************)
\* the records of this specification
IdemRecords ==
    {Transaction(id, country, region, product, 1050, 2, txTime) :
        id \in {<<"T","X","1">>, <<"$"," ","a">>},
        country \in {<<"u","s","a">>, <<"n","e","w"," ","z","e","a","l","a","n","d">>, <<>>},
        region \in {<<"n">>, <<"n","o","r","t","h">>, <<>>},
        product \in {<<"w","i","d","g","e","t"," ","a">>, <<"T","O","O","L"," ","k","i","t">>, <<"g","i","z","m","o">>},
        txTime \in {ZeroTime, MkTime(1710498645, 0, "UTC"), MkTime(1710498645, 0, "Local")}}

InitIdem ==
    /\ config = DefaultConfig
    /\ transformations = DefaultTransformations
    /\ seenIDs = {}
    /\ input \in IdemRecords
    /\ output = <<>>
    /\ pc = 0

\* one pass of the loop over engine.transformations, on the record the pass before
\* it left
ApplyTransformations ==
    /\ pc < MaxPasses
    /\ LET tx == IF output = <<>> THEN input ELSE output[Len(output)]
       IN  output' = Append(output,
                        applyTransformations(config, transformations, 1, tx, 1, {}, <<>>).tx)
    /\ pc' = pc + 1
    /\ UNCHANGED <<config, transformations, seenIDs, input>>

NextIdem == ApplyTransformations

SpecIdem == InitIdem /\ [][NextIdem]_vars

\* C4: idempotence: a second application of the registered transformation list to
\* the output of the first leaves every field of the record unchanged.
C4_TransformationsIdempotent == Len(output) = 2 => output[2] = output[1]

(***************************************************************************)
(* One logical record, written in each format and parsed.                  *)
(***************************************************************************)
\* the canonical fields, in the order the model writes them
CanonicalFields ==
    <<<<"t","r","a","n","s","a","c","t","i","o","n","_","i","d">>, <<"c","o","u","n","t","r","y">>, <<"r","e","g","i","o","n">>, <<"p","r","o","d","u","c","t","_","n","a","m","e">>, <<"p","r","i","c","e">>, <<"q","u","a","n","t","i","t","y">>,
      <<"t","r","a","n","s","a","c","t","i","o","n","_","d","a","t","e">>>>

\* the logical records of this specification: the text of each field's value
LogicalRecords ==
    {<<<<"T","X","1">>, <<"u","s","a">>, <<"n">>, <<"w","i","d","g","e","t"," ","a">>, <<"1","0",".","5","0">>, <<"2">>, <<"2","0","2","4","-","0","3","-","1","5">>>>}

\* A spelling gives each canonical field one of the table's names for it. The model's
\* spellings depart from the first name for at most one field.
Spellings ==
    UNION {{[i \in 1..Len(CanonicalFields) |->
                IF i = f THEN columnVariations[CanonicalFields[f]][k]
                ELSE columnVariations[CanonicalFields[i]][1]] :
              k \in 1..Len(columnVariations[CanonicalFields[f]])} :
           f \in 1..Len(CanonicalFields)}

FormatInputs ==
    {[record |-> r, spelling |-> sp, upper |-> u] :
        r \in LogicalRecords, sp \in Spellings, u \in BOOLEAN}

Key(in, i) == IF in.upper THEN ToUpper(in.spelling[i]) ELSE in.spelling[i]

\* the record as delimited text: a header line and one line of values
AsDelimited(in) ==
    [syntax |-> "csv",
     lines |-> <<Line([i \in 1..Len(CanonicalFields) |-> Key(in, i)]), Line(in.record)>>]

\* the record as a JSON or YAML list of one object, price and quantity being numbers
AsStructured(in, syntax) ==
    LET keys == {Key(in, i) : i \in 1..Len(CanonicalFields)}
        at(key) == CHOOSE i \in 1..Len(CanonicalFields) : Key(in, i) = key
    IN  Structured(syntax, "array",
            <<Object([key \in keys |->
                IF CanonicalFields[at(key)] \in {<<"p","r","i","c","e">>, <<"q","u","a","n","t","i","t","y">>}
                THEN NumVal(in.record[at(key)])
                ELSE StrVal(in.record[at(key)])])>>)

Expressed(in, format) ==
    IF format = "csv" THEN AsDelimited(in) ELSE AsStructured(in, format)

Formats == {"csv", "json", "yaml"}

InitFormat ==
    /\ config = DefaultConfig
    /\ transformations = DefaultTransformations
    /\ seenIDs = {}
    /\ input \in FormatInputs
    /\ output = [format \in Formats |-> NoCall]
    /\ pc = 0

\* converter.ConvertToTransactions(reader, format) on the record written in <<"f","o","r","m","a","t">>
ParseAs(format) ==
    /\ output[format] = NoCall
    /\ output' = [output EXCEPT
                    ![format] = ConvertToTransactions(config, Expressed(input, format), format)]
    /\ pc' = pc + 1
    /\ UNCHANGED <<config, transformations, seenIDs, input>>

NextFormat == \E format \in Formats : ParseAs(format)

SpecFormat == InitFormat /\ [][NextFormat]_vars

\* C2: format-invariance: a logical record written as CSV, as JSON and as YAML, each
\* field under any spelling of the synonym table and in any letter case, parses to
\* identical canonical records.
C2_FormatInvariance ==
    pc = 3 =>
        /\ output["csv"].transactions = output["json"].transactions
        /\ output["json"].transactions = output["yaml"].transactions

(***************************************************************************)
(* A record set, exported and imported again.                              *)
(***************************************************************************)
\* the canonical records of this specification: one as the pipeline leaves a dated
\* row, one as it leaves a row dated by a Unix timestamp
RoundTripRecords ==
    {Transaction(<<"T","X","1">>, <<"U","n","i","t","e","d"," ","S","t","a","t","e","s">>, <<"N","o","r","t","h">>, <<"W","i","d","g","e","t"," ","A">>, 1050, 2,
                 MkTime(1710498645, 0, "UTC")),
     Transaction(<<"T","X","2">>, <<"U","n","i","t","e","d"," ","K","i","n","g","d","o","m">>, <<>>, <<"G","a","d","g","e","t">>, 29, 1,
                 MkTime(1710503445, 0, "Local"))}

RoundTripSets ==
    {<<a>> : a \in RoundTripRecords} \cup {<<a, b>> : a \in RoundTripRecords, b \in RoundTripRecords}

ExportFormats == {"csv", "tsv", "json", "yaml"}

InitRoundTrip ==
    /\ config = DefaultConfig
    /\ transformations = DefaultTransformations
    /\ seenIDs = {}
    /\ input \in {[records |-> r, format |-> f, zone |-> z] :
                    r \in RoundTripSets, f \in ExportFormats, z \in LocalZones}
    /\ output = NoCall
    /\ pc = 0

\* converter.ExportToFormat(records, writer, format)
Export ==
    /\ pc = 0
    /\ output' = [op |-> "exported",
                  bytes |-> ExportToFormat(input.records, input.format, input.zone)]
    /\ pc' = 1
    /\ UNCHANGED <<config, transformations, seenIDs, input>>

\* converter.ConvertToTransactions(reader, format) on the exported bytes
Import ==
    /\ pc = 1
    /\ output' = [op |-> "imported",
                  bytes |-> output.bytes,
                  parsed |-> ConvertToTransactions(config, output.bytes, input.format)]
    /\ pc' = 2
    /\ UNCHANGED <<config, transformations, seenIDs, input>>

NextRoundTrip == Export \/ Import

SpecRoundTrip == InitRoundTrip /\ [][NextRoundTrip]_vars

\* equal up to rendering precision: the same fields, the price within a cent, the
\* time the same instant to the second
SameRecord(a, b) ==
    /\ a.ID = b.ID
    /\ a.Country = b.Country
    /\ a.Region = b.Region
    /\ a.ProductName = b.ProductName
    /\ a.Quantity = b.Quantity
    /\ a.UnitPriceCents - b.UnitPriceCents \in {-1, 0, 1}
    /\ a.TxTime.zero = b.TxTime.zero
    /\ a.TxTime.sec = b.TxTime.sec

\* C3: round trip: a record set exported to csv, tsv, json or yaml and imported
\* again in that format is the same record set, record by record in the same order,
\* up to price and timestamp rendering precision.
C3_RoundTrip ==
    pc = 2 =>
        /\ output.parsed.err = ""
        /\ Len(output.parsed.transactions) = Len(input.records)
        /\ \A i \in 1..Len(input.records) :
              SameRecord(input.records[i], output.parsed.transactions[i])

(***************************************************************************)
(* Two calls of ProcessDataFile running concurrently on one handler.       *)
(*                                                                         *)
(* Parsing and the transformations work on data of the call; the calls     *)
(* meet in the validation loop, where each runs Validate of the engine's   *)
(* one UniquenessValidator on each of its records. Validate is not         *)
(* synchronized: its test for a nil map, the make, the map read and the    *)
(* map write are steps of their own, and a write that meets another        *)
(* access of the map is a data race, which the runtime may end with a      *)
(* fatal error.                                                            *)
(***************************************************************************)
Calls == {1, 2}

\* the transformed records the calls validate
ConcRecords ==
    {Transaction(id, <<"U","n","i","t","e","d"," ","S","t","a","t","e","s">>, <<"N","o","r","t","h">>, <<"W","i","d","g","e","t"," ","A">>, 1050, 2,
                 MkTime(1710498645, 0, "UTC")) : id \in {<<"T","X","1">>, <<"T","X","2">>}}

ConcBatches ==
    {<<a>> : a \in ConcRecords} \cup {<<a, b>> : a \in ConcRecords, b \in ConcRecords}

\* where a call stands: the record it validates, the step of Validate it is about
\* to take, and whether it has read or written the validator's map
At(i, step, touched) == [i |-> i, at |-> step, touched |-> touched]

InitConc ==
    /\ config = DefaultConfig
    /\ transformations = DefaultTransformations
    /\ seenIDs = {}
    /\ input \in [Calls -> ConcBatches]
    /\ output = [p \in Calls |-> <<>>]
    /\ pc = [nil |-> TRUE, call |-> [p \in Calls |-> At(1, "check", FALSE)]]

\* the call moves to its next record, or is done
Advance(p, touched) ==
    IF pc.call[p].i < Len(input[p]) THEN At(pc.call[p].i + 1, "check", touched)
    ELSE At(pc.call[p].i, "done", touched)

\* if u.seenIDs == nil
CheckNil(p) ==
    /\ pc.call[p].at = "check"
    /\ pc' = [pc EXCEPT !.call[p].at = IF pc.nil THEN "make" ELSE "read"]
    /\ UNCHANGED <<config, transformations, seenIDs, input, output>>

\* u.seenIDs = make(map[string]bool)
Make(p) ==
    /\ pc.call[p].at = "make"
    /\ seenIDs' = {}
    /\ pc' = [pc EXCEPT !.nil = FALSE, !.call[p].at = "read"]
    /\ UNCHANGED <<config, transformations, input, output>>

\* if u.seenIDs[tx.ID] { return fmt.Errorf("duplicate transaction ID: ...") }
Read(p) ==
    /\ pc.call[p].at = "read"
    /\ IF input[p][pc.call[p].i].ID \in seenIDs
       THEN /\ output' = [output EXCEPT ![p] = Append(@,
                            Warning("Validation", "UniquenessValidator", pc.call[p].i - 1,
                                    "duplicate transaction ID"))]
            /\ pc' = [pc EXCEPT !.call[p] = Advance(p, TRUE)]
       ELSE /\ output' = output
            /\ pc' = [pc EXCEPT !.call[p] = At(pc.call[p].i, "write", TRUE)]
    /\ UNCHANGED <<config, transformations, seenIDs, input>>

\* u.seenIDs[tx.ID] = true
Write(p) ==
    /\ pc.call[p].at = "write"
    /\ seenIDs' = seenIDs \cup {input[p][pc.call[p].i].ID}
    /\ pc' = [pc EXCEPT !.call[p] = Advance(p, TRUE)]
    /\ UNCHANGED <<config, transformations, input, output>>

\* the runtime's "concurrent map read and map write" / "concurrent map writes": the
\* write of one call meets a map access of the other, and the process dies
Fatal(p) ==
    /\ pc.call[p].at = "write"
    /\ \E q \in Calls \ {p} : pc.call[q].at \in {"read", "write"}
    /\ pc' = [pc EXCEPT !.call = [q \in Calls |-> [pc.call[q] EXCEPT !.at = "fatal"]]]
    /\ UNCHANGED <<config, transformations, seenIDs, input, output>>

NextConc ==
    \E p \in Calls : CheckNil(p) \/ Make(p) \/ Read(p) \/ Write(p) \/ Fatal(p)

SpecConc == InitConc /\ [][NextConc]_vars

\* C10: concurrent calls on one handler share no mutable identifier set: no call
\* reports a duplicate for an identifier that occurs once in its own batch, and the
\* calls do not both read and write the same set.
C10_NoSharedIdentifierSet ==
    /\ \A p \in Calls : \A w \in Range(output[p]) :
          \E j \in 1..w.record : input[p][j].ID = input[p][w.record + 1].ID
    /\ ~(\A p \in Calls : pc.call[p].touched)

(***************************************************************************)
(* Configuration validation.                                               *)
(***************************************************************************)
\* FlexibleDataHandler.ValidateConfiguration: the error it returns, or ""
ValidateConfiguration(cfg) ==
    IF cfg.PriceMultiplier <= 0 THEN "price_multiplier must be positive"
    ELSE IF Len(cfg.DateFormats) = 0 THEN "at least one date format must be specified"
    ELSE ""

\* isValidDateFormat: the layouts of the model that contain "2006", "01" and "02"
ReferenceLayouts ==
    {"2006-01-02T15:04:05Z", "2006-01-02", "2006-01-02 15:04:05", "01/02/2006",
     "02-01-2006", "2006/01/02", "2006-01-02T15:04:05-07:00"}

\* ConfigLoader.ValidateConfig: the error it returns, or ""
ValidateConfig(cfg) ==
    IF cfg.PriceMultiplier <= 0 THEN "price_multiplier must be positive"
    ELSE IF Len(cfg.DateFormats) = 0 THEN "at least one date format must be specified"
    ELSE IF Range(cfg.DateFormats) \cap ReferenceLayouts = {} THEN "no valid date formats found"
    ELSE ""

\* the configurations both validations reject
InvalidConfigs ==
    {[DefaultConfig EXCEPT !.PriceMultiplier = 0],
     [DefaultConfig EXCEPT !.PriceMultiplier = -1],
     [DefaultConfig EXCEPT !.DateFormats = <<>>]}

ConfigFiles ==
    {File(".csv", CsvDoc(<<RowA, RowB>>)),
     File(".json", Structured("json", "array", <<ObjA, ObjNoID>>)),
     File(".json", Structured("json", "single", <<ObjB>>))}

\* NewFlexibleDataHandler(config): the configuration is stored as given
InitConfig ==
    /\ config \in InvalidConfigs \cup {DefaultConfig}
    /\ transformations = DefaultTransformations
    /\ seenIDs = {}
    /\ input = NoCall
    /\ output = NoCall
    /\ pc = 0

\* fdh.ValidateConfiguration(), which a caller may make; no other code calls it
CallValidateConfiguration ==
    /\ input' = [op |-> "ValidateConfiguration"]
    /\ output' = [err |-> ValidateConfiguration(config), loader |-> ValidateConfig(config)]
    /\ UNCHANGED <<config, transformations, seenIDs, pc>>

NextConfig ==
    \/ CallValidateConfiguration
    \/ \E file \in ConfigFiles : CallProcessDataFile(file, {})
    \/ \E file \in ConfigFiles : CallProcessDataStream(file)

SpecConfig == InitConfig /\ [][NextConfig]_vars

\* C11: a configuration with a non-positive price multiplier or with no date pattern
\* is rejected before any record is processed: a processing call on a handler built
\* from it returns no record.
C11_InvalidConfigurationRejected ==
    (/\ input.op \in {"ProcessDataFile", "ProcessDataStream"}
     /\ ValidateConfiguration(config) # "")
        => output.records = <<>>

(***************************************************************************)
(* Malformed JSON documents.                                               *)
(***************************************************************************)
\* a complete value followed by text that is no JSON, e.g. [{...}] [{"id": "TX2"
Trailing(doc) == [syntax |-> doc.syntax, shape |-> "trailing", items |-> <<doc>>]

\* the text is not one JSON value
Malformed(doc) == doc.shape \in {"malformed", "trailing"}

MalformedFiles ==
    {File(".json", Structured("json", "malformed", <<>>)),
     File(".json", Trailing(Structured("json", "array", <<ObjA>>))),
     File(".json", Trailing(Structured("json", "single", <<ObjB>>))),
     File(".json", Trailing(Structured("json", "array", <<ObjNoID>>))),
     File(".json", Structured("json", "array", <<ObjA, ObjB>>))}

NextMalformed ==
    \/ \E t \in ExtraTransformations : RegisterTransformation(t)
    \/ \E file \in MalformedFiles : CallProcessDataFile(file, {})
    \/ \E file \in MalformedFiles : CallProcessDataStream(file)

SpecMalformed == Init /\ [][NextMalformed]_vars

\* C12: malformed top-level JSON makes the orchestrator call return an error and no
\* records, never a partial record set with a nil error.
C12_MalformedJsonFails ==
    (input.op # "none" /\ Malformed(input.file.doc))
        => output.err # "" /\ output.records = <<>>

(***************************************************************************)
(* Header rows.                                                            *)
(***************************************************************************)
HeaderNames == {<<"t","r","a","n","s","a","c","t","i","o","n","_","i","d">>, <<" ","I","D">>, <<"q","t","y">>, <<"Q","u","a","n","t","i","t","y">>, <<"N","o","t","e","s">>, <<"a","m","o","u","n","t">>}

\* the header rows of the model: two or three different columns
Headers ==
    {h \in HeaderNames \X HeaderNames : h[1] # h[2]}
    \cup {h \in HeaderNames \X HeaderNames \X HeaderNames :
            h[1] # h[2] /\ h[1] # h[3] /\ h[2] # h[3]}

InitHeader ==
    /\ config = DefaultConfig
    /\ transformations = DefaultTransformations
    /\ seenIDs = {}
    /\ input \in Headers
    /\ output = NoCall
    /\ pc = 0

\* columnMap := fc.createColumnMapping(header)
CreateColumnMapping ==
    /\ pc = 0
    /\ output' = createColumnMapping(input)
    /\ pc' = 1
    /\ UNCHANGED <<config, transformations, seenIDs, input>>

NextHeader == CreateColumnMapping

SpecHeader == InitHeader /\ [][NextHeader]_vars

\* the lower-cased, trimmed name of column i
Normalized(header, i) == ToLower(TrimSpace(header[i]))

\* the columns of the header that are synonyms of the standard field
Synonyms(header, field) ==
    {i \in 1..Len(header) : Normalized(header, i) \in Range(columnVariations[field])}

\* the column whose name comes first in the field's synonym list
FirstInTable(header, field) ==
    CHOOSE i \in Synonyms(header, field) :
        \A j \in Synonyms(header, field) :
            IndexOf(Normalized(header, i), columnVariations[field])
                <= IndexOf(Normalized(header, j), columnVariations[field])

\* C13: a standard field with several synonym columns is bound to the column whose
\* name comes first in the field's synonym list, wherever the columns stand; a header
\* matching no synonym is kept under its lower-cased name and binds no standard field.
C13_FirstSynonymInTableOrderWins ==
    pc = 1 =>
        /\ \A field \in DOMAIN columnVariations :
              Synonyms(input, field) # {}
                  => output[field] = FirstInTable(input, field)
        /\ \A i \in 1..Len(input) :
              (\A field \in DOMAIN columnVariations : i \notin Synonyms(input, field))
                  => /\ output[Normalized(input, i)] = i
                     /\ \A field \in DOMAIN columnVariations :
                           Has(output, field) => output[field] # i

(***************************************************************************)
(* Format detection.                                                       *)
(***************************************************************************)
MaxText == 4

HasPrefix(s, prefix) == Len(s) >= Len(prefix) /\ SubSeq(s, 1, Len(prefix)) = prefix

HasSuffix(s, suffix) ==
    Len(s) >= Len(suffix) /\ SubSeq(s, Len(s) - Len(suffix) + 1, Len(s)) = suffix

Contains(s, substr) ==
    \E i \in 1..(Len(s) - Len(substr) + 1) : SubSeq(s, i, i + Len(substr) - 1) = substr

\* The detection, were the tab test to come before the YAML one.
DetectFormatTabFirst(data) ==
    LET dataStr == TrimSpace(data)
    IN  IF \/ HasPrefix(dataStr, <<"{">>) /\ HasSuffix(dataStr, <<"}">>)
           \/ HasPrefix(dataStr, <<"[">>) /\ HasSuffix(dataStr, <<"]">>)
        THEN "json"
        ELSE IF HasPrefix(dataStr, <<"<">>) /\ Contains(dataStr, <<">">>) THEN "xml"
        ELSE IF Contains(dataStr, <<"\t">>) THEN "tsv"
        ELSE IF /\ Contains(dataStr, <<":">>)
                /\ Contains(dataStr, <<"\n","-">>) \/ Contains(dataStr, <<"-","-","-">>)
        THEN "yaml"
        ELSE "csv"

DetectFormat(data) ==
    LET dataStr == TrimSpace(data)
    IN  IF \/ HasPrefix(dataStr, <<"{">>) /\ HasSuffix(dataStr, <<"}">>)
           \/ HasPrefix(dataStr, <<"[">>) /\ HasSuffix(dataStr, <<"]">>)
        THEN "json"
        ELSE IF HasPrefix(dataStr, <<"<">>) /\ Contains(dataStr, <<">">>) THEN "xml"
        ELSE IF /\ Contains(dataStr, <<":">>)
                /\ Contains(dataStr, <<"\n","-">>) \/ Contains(dataStr, <<"-","-","-">>)
        THEN "yaml"
        ELSE IF Contains(dataStr, <<"\t">>) THEN "tsv"
        ELSE "csv"

\* the characters of the texts given to the detection
TextChars == {"{", "}", "[", "]", "<", ">", ":", "-", "\n", "\t", "a"}

Texts == UNION {[1..n -> TextChars] : n \in 0..MaxText}

\* strings.ToLower(filepath.Ext(filePath))
Extensions == {".csv", ".tsv", ".json", ".yaml", ".yml", ".xml", ""}

InitDetect ==
    /\ config = DefaultConfig
    /\ transformations = DefaultTransformations
    /\ seenIDs = {}
    /\ input \in Texts
    /\ output = NoCall
    /\ pc = 0

\* fc.DetectFormat(data)
CallDetectFormat ==
    /\ pc = 0
    /\ output' = [op |-> "DetectFormat", ext |-> "", kind |-> DetectFormat(input)]
    /\ pc' = 1
    /\ UNCHANGED <<config, transformations, seenIDs, input>>

\* fdh.detectFileFormat(filePath, file) on a file of at most 1024 bytes
CallDetectFileFormat(ext) ==
    /\ pc = 0
    /\ output' = [op |-> "detectFileFormat", ext |-> ext,
                  kind |-> detectFileFormat([ext |-> ext, sniffed |-> DetectFormat(input)])]
    /\ pc' = 1
    /\ UNCHANGED <<config, transformations, seenIDs, input>>

NextDetect ==
    \/ CallDetectFormat
    \/ \E ext \in Extensions : CallDetectFileFormat(ext)

SpecDetect == InitDetect /\ [][NextDetect]_vars

\* what the trimmed content looks like, character by character
Trimmed == TrimSpace(input)

Enclosed(open, close) ==
    Trimmed # <<>> /\ Trimmed[1] = open /\ Trimmed[Len(Trimmed)] = close

LooksJson == Enclosed("{", "}") \/ Enclosed("[", "]")

LooksXml == Trimmed # <<>> /\ Trimmed[1] = "<" /\ ">" \in Range(Trimmed)

LooksYaml ==
    /\ ":" \in Range(Trimmed)
    /\ \/ \E i \in 1..(Len(Trimmed) - 1) : Trimmed[i] = "\n" /\ Trimmed[i + 1] = "-"
       \/ \E i \in 1..(Len(Trimmed) - 2) : \A j \in i..(i + 2) : Trimmed[j] = "-"

ByContent ==
    IF LooksJson THEN "json"
    ELSE IF LooksXml THEN "xml"
    ELSE IF LooksYaml THEN "yaml"
    ELSE IF "\t" \in Range(Trimmed) THEN "tsv"
    ELSE "csv"

NewDataTransformationEngine(cfg) ==
    [cfg EXCEPT
        !.DateFormats = IF Len(@) = 0
                        THEN <<"2006-01-02T15:04:05Z07:00", "2006-01-02",
                               "2006-01-02 15:04:05", "01/02/2006", "02-01-2006",
                               "2006/01/02">>
                        ELSE @,
        !.NullValues = IF Len(@) = 0 THEN <<<<>>, <<"N","U","L","L">>, <<"n","u","l","l">>, <<"N","/","A">>, <<"n","/","a">>, <<"-">>>> ELSE @,
        !.PriceMultiplier = IF @ = 0 THEN 100 ELSE @]

\* e.cleanString
engineCleanString(ecfg, s) ==
    IF TrimSpace(s) \in Range(ecfg.NullValues) THEN <<>> ELSE TrimSpace(s)

\* e.mapCountry's table
engineCountryMappings ==
    (<<"u","s","a">> :> <<"U","n","i","t","e","d"," ","S","t","a","t","e","s">>) @@ (<<"u","s">> :> <<"U","n","i","t","e","d"," ","S","t","a","t","e","s">>) @@
    (<<"a","m","e","r","i","c","a">> :> <<"U","n","i","t","e","d"," ","S","t","a","t","e","s">>) @@ (<<"u","k">> :> <<"U","n","i","t","e","d"," ","K","i","n","g","d","o","m">>) @@
    (<<"b","r","i","t","a","i","n">> :> <<"U","n","i","t","e","d"," ","K","i","n","g","d","o","m">>) @@ (<<"e","n","g","l","a","n","d">> :> <<"U","n","i","t","e","d"," ","K","i","n","g","d","o","m">>) @@
    (<<"u","a","e">> :> <<"U","n","i","t","e","d"," ","A","r","a","b"," ","E","m","i","r","a","t","e","s">>) @@ (<<"s","o","u","t","h"," ","k","o","r","e","a">> :> <<"K","o","r","e","a">>) @@
    (<<"n","o","r","t","h"," ","k","o","r","e","a">> :> <<"K","o","r","e","a">>)

\* e.mapCountry
engineMapCountry(ecfg, country) ==
    IF country = <<>> /\ ecfg.DefaultCountry # <<>> THEN ecfg.DefaultCountry
    ELSE IF Has(ecfg.CustomMappings, ToLower(country))
    THEN ecfg.CustomMappings[ToLower(country)]
    ELSE IF Has(engineCountryMappings, ToLower(country))
    THEN engineCountryMappings[ToLower(country)]
    ELSE country

\* e.mapRegion
engineMapRegion(ecfg, region) ==
    IF region = <<>> /\ ecfg.DefaultRegion # <<>> THEN ecfg.DefaultRegion
    ELSE IF Has(ecfg.CustomMappings, ToLower(<<"r","e","g","i","o","n","_">> \o region))
    THEN ecfg.CustomMappings[ToLower(<<"r","e","g","i","o","n","_">> \o region)]
    ELSE region

\* e.normalizeProductName
engineNormalizeProductName(ecfg, productName) ==
    IF Has(ecfg.CustomMappings, ToLower(<<"p","r","o","d","u","c","t","_">> \o engineCleanString(ecfg, productName)))
    THEN ecfg.CustomMappings[ToLower(<<"p","r","o","d","u","c","t","_">> \o engineCleanString(ecfg, productName))]
    ELSE Title(ToLower(engineCleanString(ecfg, productName)))

\* e.parsePrice: the text left when the null values, the currency symbols and the
\* commas are removed
enginePriceText(ecfg, priceStr) ==
    RemoveChars(engineCleanString(ecfg, priceStr), {"$", "€", "£", "¥", "₹", "₽", ","})

parsePriceOk(ecfg, priceStr) == IsFloatText(enginePriceText(ecfg, priceStr))

parsePrice(ecfg, priceStr) ==
    FloatTimesTrunc(FloatValue(enginePriceText(ecfg, priceStr)), ecfg.PriceMultiplier)

\* e.parseDate: the configured layouts only
parseDateOk(ecfg, dateStr) ==
    \E i \in 1..Len(ecfg.DateFormats) :
        TimeParses(ecfg.DateFormats[i], engineCleanString(ecfg, dateStr))

parseDate(ecfg, dateStr) ==
    LET hits == {i \in 1..Len(ecfg.DateFormats) :
                    TimeParses(ecfg.DateFormats[i], engineCleanString(ecfg, dateStr))}
    IN  TimeParse(ecfg.DateFormats[CHOOSE i \in hits : \A j \in hits : i <= j],
                  engineCleanString(ecfg, dateStr))

\* TransformCSVData's column map: the lower-cased, trimmed header names, a later
\* column overwriting an earlier one of the same name
engineColumnMap(header) ==
    [name \in {ToLower(TrimSpace(header[i])) : i \in 1..Len(header)} |->
        CHOOSE i \in 1..Len(header) :
            /\ ToLower(TrimSpace(header[i])) = name
            /\ \A j \in 1..Len(header) : ToLower(TrimSpace(header[j])) = name => j <= i]

\* idx, ok := columnMap[name]; ok && idx < len(record)
InRecord(record, columnMap, name) == Has(columnMap, name) /\ columnMap[name] <= Len(record)

\* transformRecord before the transformations: the fields a column gives, the others
\* left at their zero value
extractRecord(ecfg, record, columnMap) ==
    LET cell(name) == record[columnMap[name]]
        has(name) == InRecord(record, columnMap, name)
    IN  IF has(<<"p","r","i","c","e">>) /\ ~parsePriceOk(ecfg, cell(<<"p","r","i","c","e">>)) THEN Err("invalid price")
        ELSE IF has(<<"q","u","a","n","t","i","t","y">>) /\ ~IsIntText(engineCleanString(ecfg, cell(<<"q","u","a","n","t","i","t","y">>)))
        THEN Err("invalid quantity")
        ELSE IF has(<<"t","r","a","n","s","a","c","t","i","o","n","_","d","a","t","e">>) /\ ~parseDateOk(ecfg, cell(<<"t","r","a","n","s","a","c","t","i","o","n","_","d","a","t","e">>))
        THEN Err("invalid date")
        ELSE Ok(Transaction(
                IF has(<<"t","r","a","n","s","a","c","t","i","o","n","_","i","d">>) THEN engineCleanString(ecfg, cell(<<"t","r","a","n","s","a","c","t","i","o","n","_","i","d">>))
                ELSE <<>>,
                IF has(<<"c","o","u","n","t","r","y">>)
                THEN engineMapCountry(ecfg, engineCleanString(ecfg, cell(<<"c","o","u","n","t","r","y">>)))
                ELSE <<>>,
                IF has(<<"r","e","g","i","o","n">>)
                THEN engineMapRegion(ecfg, engineCleanString(ecfg, cell(<<"r","e","g","i","o","n">>)))
                ELSE <<>>,
                IF has(<<"p","r","o","d","u","c","t","_","n","a","m","e">>)
                THEN engineNormalizeProductName(ecfg, cell(<<"p","r","o","d","u","c","t","_","n","a","m","e">>))
                ELSE <<>>,
                IF has(<<"p","r","i","c","e">>) THEN parsePrice(ecfg, cell(<<"p","r","i","c","e">>)) ELSE 0,
                IF has(<<"q","u","a","n","t","i","t","y">>)
                THEN IntValue(engineCleanString(ecfg, cell(<<"q","u","a","n","t","i","t","y">>)))
                ELSE 0,
                IF has(<<"t","r","a","n","s","a","c","t","i","o","n","_","d","a","t","e">>) THEN parseDate(ecfg, cell(<<"t","r","a","n","s","a","c","t","i","o","n","_","d","a","t","e">>))
                ELSE ZeroTime))

\* the transformations applied to what extractRecord returns
transformExtracted(cfg, ts, r) ==
    IF r.ok THEN Ok(applyTransformations(cfg, ts, 1, r.tx, 1, {}, <<>>).tx) ELSE r

\* e.transformRecord
transformRecord(cfg, ts, record, columnMap) ==
    transformExtracted(cfg, ts,
        extractRecord(NewDataTransformationEngine(cfg), record, columnMap))

\* e.validateTransaction: the first validator that fails ends it
validateTransaction(seen, tx) ==
    IF RequiredFieldValidatorValidate(tx) # ""
    THEN [name |-> "RequiredFieldValidator", err |-> RequiredFieldValidatorValidate(tx),
          seenIDs |-> seen]
    ELSE IF DataTypeValidatorValidate(tx) # ""
    THEN [name |-> "DataTypeValidator", err |-> DataTypeValidatorValidate(tx),
          seenIDs |-> seen]
    ELSE IF RangeValidatorValidate(tx) # ""
    THEN [name |-> "RangeValidator", err |-> RangeValidatorValidate(tx), seenIDs |-> seen]
    ELSE [name |-> "UniquenessValidator", err |-> UniquenessValidatorValidate(seen, tx).err,
          seenIDs |-> UniquenessValidatorValidate(seen, tx).seenIDs]

\* one turn of TransformCSVData's record loop, r being what transformRecord returns
engineRecord(cfg, acc, r, v) ==
    IF ~r.ok
    THEN [acc EXCEPT !.errors = Append(@, r.err), !.skipped = @ + 1]
    ELSE IF ~cfg.EnableValidation
    THEN [acc EXCEPT !.transactions = Append(@, r.tx)]
    ELSE [acc EXCEPT !.transactions = Append(@, r.tx),
                     !.warnings = IF v.err # ""
                                  THEN Append(@, [kind |-> "validation", name |-> v.name,
                                                  err |-> v.err])
                                  ELSE @,
                     !.seenIDs = v.seenIDs]

engineValidated(cfg, acc, r) ==
    engineRecord(cfg, acc, r,
                 IF r.ok THEN validateTransaction(acc.seenIDs, r.tx)
                 ELSE [name |-> "", err |-> "", seenIDs |-> acc.seenIDs])

RECURSIVE engineRecords(_, _, _, _, _, _)
engineRecords(cfg, ts, rawRecords, columnMap, i, acc) ==
    IF i > Len(rawRecords) THEN acc
    ELSE engineRecords(cfg, ts, rawRecords, columnMap, i + 1,
            engineValidated(cfg, acc,
                            transformRecord(cfg, ts, rawRecords[i].cells, columnMap)))

\* TransformationResult as TransformCSVData fills it
EngineResult(original, acc, ts, quality) ==
    [nil |-> FALSE,
     OriginalRecords |-> original,
     TransformedRecords |-> Len(acc.transactions),
     SkippedRecords |-> acc.skipped,
     Errors |-> acc.errors,
     Warnings |-> acc.warnings,
     Transformations |-> ts,
     DataQuality |-> quality]

\* TransformCSVData from the optimization step on
engineFinish(ts, original, acc, records) ==
    Returned(records, EngineResult(original, acc, ts, calculateDataQuality(records)),
             "", <<>>, acc.seenIDs)

engineOptimized(cfg, ts, original, acc) ==
    engineFinish(ts, original, acc,
                 IF cfg.EnableOptimization THEN optimizeTransactions(acc.transactions)
                 ELSE acc.transactions)

\* the lines the csv reader returns; a line it rejects adds an error and is passed over
engineRead(cfg, ts, seen, doc, rawRecords) ==
    engineOptimized(cfg, ts, Len(rawRecords),
        engineRecords(cfg, ts, rawRecords, engineColumnMap(doc.lines[1].cells), 1,
            [transactions |-> <<>>,
             errors |-> [i \in 1..(Len(doc.lines) - 1 - Len(rawRecords)) |-> "CSV read error"],
             warnings |-> <<>>, skipped |-> 0, seenIDs |-> seen]))

\* engine.TransformCSVData(reader), the reader holding comma-delimited text
TransformCSVData(cfg, ts, seen, doc) ==
    IF doc.lines = <<>> \/ doc.lines[1].bad
    THEN Returned(<<>>, EngineResult(0, [transactions |-> <<>>, skipped |-> 0,
                                         errors |-> <<>>, warnings |-> <<>>], <<>>,
                                     ZeroMetrics),
                  "failed to read CSV header", <<>>, seen)
    ELSE engineRead(cfg, ts, seen, doc, SelectSeq(Tail(doc.lines), LAMBDA l : ~l.bad))

(***************************************************************************)
(* Records without a quantity value.                                       *)
(***************************************************************************)
\* One record, otherwise complete: its identifier, the names its price and quantity
\* are written under, and whether the quantity is absent (no column, no key), empty
\* or present.
QuantityInputs ==
    {[id |-> id, price |-> p, name |-> n, quantity |-> q] :
        id \in {<<"T","X","1">>, <<"T","X","2">>, <<"A","-","7">>},
        p \in {<<"p","r","i","c","e">>, <<"c","o","s","t">>, <<"u","n","i","t","_","p","r","i","c","e">>},
        n \in {<<"q","u","a","n","t","i","t","y">>, <<"q","t","y">>, <<"c","o","u","n","t">>},
        q \in {"absent", "empty", "present"}}

QuantityText(in) == IF in.quantity = "present" THEN <<"3">> ELSE <<>>

\* the record as delimited text
QuantityLines(in) ==
    IF in.quantity = "absent"
    THEN <<Line(<<<<"t","r","a","n","s","a","c","t","i","o","n","_","i","d">>, <<"c","o","u","n","t","r","y">>, <<"r","e","g","i","o","n">>, <<"p","r","o","d","u","c","t","_","n","a","m","e">>, in.price,
                  <<"t","r","a","n","s","a","c","t","i","o","n","_","d","a","t","e">>>>),
           Line(<<in.id, <<"u","s","a">>, <<"n">>, <<"w","i","d","g","e","t"," ","a">>, <<"1","0",".","5","0">>, <<"2","0","2","4","-","0","3","-","1","5">>>>)>>
    ELSE <<Line(<<<<"t","r","a","n","s","a","c","t","i","o","n","_","i","d">>, <<"c","o","u","n","t","r","y">>, <<"r","e","g","i","o","n">>, <<"p","r","o","d","u","c","t","_","n","a","m","e">>, in.price, in.name,
                  <<"t","r","a","n","s","a","c","t","i","o","n","_","d","a","t","e">>>>),
           Line(<<in.id, <<"u","s","a">>, <<"n">>, <<"w","i","d","g","e","t"," ","a">>, <<"1","0",".","5","0">>, QuantityText(in), <<"2","0","2","4","-","0","3","-","1","5">>>>)>>

\* the record as a list of one object
QuantityObject(in) ==
    LET base == (<<"t","r","a","n","s","a","c","t","i","o","n","_","i","d">> :> StrVal(in.id)) @@ (<<"c","o","u","n","t","r","y">> :> StrVal(<<"u","s","a">>)) @@
                (<<"r","e","g","i","o","n">> :> StrVal(<<"n">>)) @@ (<<"p","r","o","d","u","c","t","_","n","a","m","e">> :> StrVal(<<"w","i","d","g","e","t"," ","a">>)) @@
                (in.price :> NumVal(<<"1","0",".","5","0">>)) @@ (<<"t","r","a","n","s","a","c","t","i","o","n","_","d","a","t","e">> :> StrVal(<<"2","0","2","4","-","0","3","-","1","5">>))
    IN  Object(CASE in.quantity = "absent" -> base
                 [] in.quantity = "empty" -> base @@ (in.name :> StrVal(<<>>))
                 [] OTHER -> base @@ (in.name :> NumVal(<<"3">>)))

QuantityDoc(in, format) ==
    IF format \in {"csv", "tsv"} THEN [syntax |-> format, lines |-> QuantityLines(in)]
    ELSE Structured(format, "array", <<QuantityObject(in)>>)

InitQuantity ==
    /\ config = DefaultConfig
    /\ transformations = DefaultTransformations
    /\ seenIDs = {}
    /\ input \in QuantityInputs
    /\ output = NoCall
    /\ pc = 0

\* converter.ConvertToTransactions(reader, format)
ConvertQuantity(format) ==
    /\ pc = 0
    /\ output' = [path |-> format,
                  records |-> ConvertToTransactions(config, QuantityDoc(input, format),
                                                    format).transactions]
    /\ pc' = 1
    /\ UNCHANGED <<config, transformations, seenIDs, input>>

\* engine.TransformCSVData(reader)
TransformQuantity ==
    /\ pc = 0
    /\ output' = [path |-> "engine",
                  records |-> TransformCSVData(config, transformations, seenIDs,
                                               QuantityDoc(input, "csv")).records]
    /\ pc' = 1
    /\ UNCHANGED <<config, transformations, seenIDs, input>>

NextQuantity ==
    \/ \E format \in {"csv", "tsv", "json", "yaml"} : ConvertQuantity(format)
    \/ TransformQuantity

SpecQuantity == InitQuantity /\ [][NextQuantity]_vars

\* C15: a record with no quantity value (no column or key, or an empty value) is kept
\* with quantity 1 rather than dropped, on every path that reads records.
C15_QuantityDefaultsToOne ==
    (pc = 1 /\ input.quantity \in {"absent", "empty"})
        => Len(output.records) = 1 /\ output.records[1].Quantity = 1

(***************************************************************************)
(* The optimizations, each on its own.                                     *)
(***************************************************************************)
MaxRecords == 3

\* The records given to the optimizations: two that differ in identifier and country
\* only, two that differ in the fraction of the second or in the zone only, and
\* others that differ in one field.
OptimizeRecords ==
    {Transaction(<<"A">>, <<"B",":","C">>, <<"N">>, <<"P">>, 1050, 2, MkTime(1710460800, 0, "UTC")),
     Transaction(<<"A",":","B">>, <<"C">>, <<"N">>, <<"P">>, 1050, 2, MkTime(1710460800, 0, "UTC")),
     Transaction(<<"A">>, <<"B",":","C">>, <<"N">>, <<"P">>, 1050, 2, MkTime(1710460800, 500, "Local")),
     Transaction(<<"A">>, <<"B",":","C">>, <<"N">>, <<"P">>, 1050, 3, MkTime(1710460800, 0, "UTC")),
     Transaction(<<"T","X","2">>, <<"C">>, <<"N">>, <<"P">>, 1050, 2, MkTime(1710498645, 0, "UTC")),
     Transaction(<<"T","X","2">>, <<"C">>, <<"N">>, <<"P">>, 1050, 2, ZeroTime)}

OptimizeInputs == UNION {[1..n -> OptimizeRecords] : n \in 0..MaxRecords}

Optimizations == {"DuplicateRemoval", "DataDeduplication", "IndexOptimization"}

\* Optimization.Optimize of the named optimization
Optimize(name, transactions) ==
    CASE name = "DuplicateRemoval" -> DuplicateRemovalOptimize(transactions)
      [] name = "DataDeduplication" -> DataDeduplicationOptimize(transactions)
      [] name = "IndexOptimization" -> IndexOptimizationOptimize(transactions)

InitOptimize ==
    /\ config = DefaultConfig
    /\ transformations = DefaultTransformations
    /\ seenIDs = {}
    /\ input \in OptimizeInputs
    /\ output = NoCall
    /\ pc = 0

\* optimization.Optimize(transactions)
CallOptimize(name) ==
    /\ pc = 0
    /\ output' = [op |-> name, records |-> Optimize(name, input)]
    /\ pc' = 1
    /\ UNCHANGED <<config, transformations, seenIDs, input>>

NextOptimize == \E name \in Optimizations : CallOptimize(name)

SpecOptimize == InitOptimize /\ [][NextOptimize]_vars

\* Time.Unix(), the zero time being its own second (-62135596800)
EpochSeconds(t) == [zero |-> t.zero, sec |-> IF t.zero THEN 0 ELSE t.sec]

\* the records agree on all seven canonical fields, the time in epoch seconds
SameSeven(a, b) ==
    /\ a.ID = b.ID /\ a.Country = b.Country /\ a.Region = b.Region
    /\ a.ProductName = b.ProductName /\ a.UnitPriceCents = b.UnitPriceCents
    /\ a.Quantity = b.Quantity /\ EpochSeconds(a.TxTime) = EpochSeconds(b.TxTime)

\* the records of s at the positions of keep, in the order of s
RECURSIVE Pick(_, _, _)
Pick(s, keep, i) ==
    IF i > Len(s) THEN <<>>
    ELSE (IF i \in keep THEN <<s[i]>> ELSE <<>>) \o Pick(s, keep, i + 1)

\* C16: DataDeduplication drops a record only if an earlier record of the input
\* matches it on all seven canonical fields; the first record of each group of
\* identical records is kept, in encounter order.
C16_DeduplicationOnAllFields ==
    (pc = 1 /\ output.op = "DataDeduplication") =>
        output.records =
            Pick(input,
                 {i \in 1..Len(input) :
                    \A j \in 1..(i - 1) : ~SameSeven(input[j], input[i])},
                 1)

\* C17: DuplicateRemoval returns the first record of each distinct identifier, in
\* input order: a later record with an identifier already seen is dropped.
C17_FirstOfEachIdentifierKept ==
    (pc = 1 /\ output.op = "DuplicateRemoval") =>
        output.records =
            Pick(input,
                 {i \in 1..Len(input) : \A j \in 1..(i - 1) : input[j].ID # input[i].ID},
                 1)

\* an identifier comes back after another one, with other field values: the later
\* record is dropped and the two first ones are kept
C17_Witness ==
    /\ pc = 1
    /\ output.op = "DuplicateRemoval"
    /\ Len(input) = 3
    /\ input[1].ID = input[3].ID /\ input[1] # input[3] /\ input[1].ID # input[2].ID
    /\ output.records = <<input[1], input[2]>>

(***************************************************************************)
(* Price texts.                                                            *)
(***************************************************************************)
\* Amounts as a source writes them, with the minor units they stand for at the
\* multiplier 100, and texts that are no number (cents -1). The float64 products of
\* 1234.56 and 999.99 with 100.0 are exactly 123456 and 99999.
Amounts ==
    {[text |-> <<"1",",","2","3","4",".","5","6">>, cents |-> 123456], [text |-> <<"9","9","9",".","9","9">>, cents |-> 99999],
     [text |-> <<"5","0">>, cents |-> 5000], [text |-> <<"1","0",".","5","0">>, cents |-> 1050],
     [text |-> <<"8",".","9","9">>, cents |-> 899], [text |-> <<"0",".","2","9">>, cents |-> 29],
     [text |-> <<"1","9",".","9","9">>, cents |-> 1999], [text |-> <<"1",".","1","3">>, cents |-> 113],
     [text |-> <<"0",".","5">>, cents |-> 50], [text |-> <<"7">>, cents |-> 700],
     [text |-> <<"1","2",",","3","4","5">>, cents |-> 1234500], [text |-> <<"a","b","c">>, cents |-> -1],
     [text |-> <<>>, cents |-> -1], [text |-> <<"1",".","2",".","3">>, cents |-> -1],
     [text |-> <<"t","e","n">>, cents |-> -1]}

PriceInputs ==
    {[text |-> symbol \o a.text, cents |-> a.cents] :
        symbol \in {<<>>, <<"$">>, <<"€">>, <<"£">>}, a \in Amounts}

InitPrice ==
    /\ config = DefaultConfig
    /\ transformations = DefaultTransformations
    /\ seenIDs = {}
    /\ input \in PriceInputs
    /\ output = NoCall
    /\ pc = 0

\* fc.parseFlexiblePrice(priceStr)
CallParseFlexiblePrice ==
    /\ pc = 0
    /\ output' = [op |-> "parseFlexiblePrice",
                  ok |-> parseFlexiblePriceOk(input.text),
                  cents |-> IF parseFlexiblePriceOk(input.text)
                            THEN parseFlexiblePrice(config, input.text) ELSE 0]
    /\ pc' = 1
    /\ UNCHANGED <<config, transformations, seenIDs, input>>

\* e.parsePrice(priceStr)
CallParsePrice ==
    /\ pc = 0
    /\ output' = [op |-> "parsePrice",
                  ok |-> parsePriceOk(NewDataTransformationEngine(config), input.text),
                  cents |-> IF parsePriceOk(NewDataTransformationEngine(config), input.text)
                            THEN parsePrice(NewDataTransformationEngine(config), input.text)
                            ELSE 0]
    /\ pc' = 1
    /\ UNCHANGED <<config, transformations, seenIDs, input>>

NextPrice == CallParseFlexiblePrice \/ CallParsePrice

SpecPrice == InitPrice /\ [][NextPrice]_vars

\* C18: currency parsing strips the currency symbol and the thousands separators and
\* fails when the rest is no number; with the multiplier 100 a text with at most two
\* decimals yields exactly its amount in cents.
C18_PriceInExactCents ==
    pc = 1 =>
        /\ output.ok = (input.cents >= 0)
        /\ output.ok => output.cents = input.cents

(***************************************************************************)
(* Date texts.                                                             *)
(***************************************************************************)
\* configurations whose patterns read one text differently, and one pattern made of
\* digits only
DateConfigs ==
    {DefaultConfig,
     [DefaultConfig EXCEPT !.DateFormats = <<"01/02/2006", "02/01/2006", "20060102">>],
     [DefaultConfig EXCEPT !.DateFormats = <<"02/01/2006", "01/02/2006", "20060102">>]}

\* Date texts: whether the text is a decimal integer, whether the integer is within
\* int64, and the seconds and milliseconds since the epoch the integer stands for, as
\* n milliseconds above 10^10 and as n seconds otherwise.
IntegerText(text, int64, sec, ms) ==
    [text |-> text, integer |-> TRUE, int64 |-> int64, sec |-> sec, ms |-> ms]

OtherText(text) == [text |-> text, integer |-> FALSE, int64 |-> FALSE, sec |-> <<>>, ms |-> 0]

DateInputs ==
    {IntegerText(<<"1","7","1","0","4","9","8","6","4","5">>, TRUE, <<"1","7","1","0","4","9","8","6","4","5">>, 0),
     IntegerText(<<"1","7","1","0","4","9","8","6","4","5","1","2","3">>, TRUE, <<"1","7","1","0","4","9","8","6","4","5">>, 123),
     IntegerText(<<"9","9","9","9","9","9","9","9","9","9">>, TRUE, <<"9","9","9","9","9","9","9","9","9","9">>, 0),
     IntegerText(<<"1","0","0","0","0","0","0","0","0","0","0">>, TRUE, <<"1","0","0","0","0","0","0","0","0","0","0">>, 0),
     IntegerText(<<"1","0","0","0","0","0","0","0","0","0","1">>, TRUE, <<"1","0","0","0","0","0","0","0">>, 1),
     IntegerText(<<"0","0","1","0","0","0","0","0","0","0","0","0","1">>, TRUE, <<"1","0","0","0","0","0","0","0">>, 1),
     IntegerText(<<"0">>, TRUE, <<"0">>, 0),
     IntegerText(<<"-","5">>, TRUE, <<"-","5">>, 0),
     IntegerText(<<"+","7">>, TRUE, <<"7">>, 0),
     IntegerText(<<"2","0","2","4","0","3","1","5">>, TRUE, <<"2","0","2","4","0","3","1","5">>, 0),
     IntegerText(<<"9","2","2","3","3","7","2","0","3","6","8","5","4","7","7","5","8","0","7">>, TRUE, <<"9","2","2","3","3","7","2","0","3","6","8","5","4","7","7","5">>, 807),
     IntegerText(<<"9","2","2","3","3","7","2","0","3","6","8","5","4","7","7","5","8","0","8">>, FALSE, <<"9","2","2","3","3","7","2","0","3","6","8","5","4","7","7","5">>, 808),
     IntegerText(<<"9","9","9","9","9","9","9","9","9","9","9","9","9","9","9","9","9","9","9","9">>, FALSE, <<"9","9","9","9","9","9","9","9","9","9","9","9","9","9","9","9","9">>, 999),
     OtherText(<<"a","b","c">>), OtherText(<<>>), OtherText(<<"1","2",".","5">>), OtherText(<<"1","e","1","0">>),
     OtherText(<<" ","1","7","1","0","4","9","8","6","4","5">>), OtherText(<<"2","0","2","4","-","1","3","-","4","5">>),
     OtherText(<<"2","0","2","4","-","0","3","-","1","5">>), OtherText(<<"0","3","/","0","4","/","2","0","2","4">>), OtherText(<<"0","3","/","1","5","/","2","0","2","4">>),
     OtherText(<<"M","a","r","c","h"," ","1","5",","," ","2","0","2","4">>), OtherText(<<"2","0","2","4","-","0","3","-","1","5","T","1","0",":","3","0",":","4","5","Z">>)}

InitDate ==
    /\ config \in DateConfigs
    /\ transformations = DefaultTransformations
    /\ seenIDs = {}
    /\ input \in DateInputs
    /\ output = NoCall
    /\ pc = 0

\* the layouts that accept the text, by their place in the configured patterns
\* followed by the fallback ones
Matching(cfg, dateStr) ==
    {i \in 1..Len(cfg.DateFormats \o additionalFormats) :
        TimeParses((cfg.DateFormats \o additionalFormats)[i], dateStr)}

\* The result of fc.parseFlexibleDate(dateStr), the seconds since the epoch as a
\* decimal text: those of time.Unix(timestamp, 0) may exceed the model's integers.
ParsedDate(cfg, dateStr) ==
    IF ~parseFlexibleDateOk(cfg, dateStr)
    THEN [op |-> "parseFlexibleDate", ok |-> FALSE, sec |-> <<>>, ms |-> 0, loc |-> ""]
    ELSE IF Matching(cfg, dateStr) # {}
    THEN [op |-> "parseFlexibleDate", ok |-> TRUE,
          sec |-> FormatD(parseFlexibleDate(cfg, dateStr).sec),
          ms |-> parseFlexibleDate(cfg, dateStr).ms,
          loc |-> parseFlexibleDate(cfg, dateStr).loc]
    ELSE [op |-> "parseFlexibleDate", ok |-> TRUE, sec |-> UnixSeconds(dateStr),
          ms |-> UnixMillis(dateStr), loc |-> "Local"]

CallParseFlexibleDate ==
    /\ pc = 0
    /\ output' = ParsedDate(config, input.text)
    /\ pc' = 1
    /\ UNCHANGED <<config, transformations, seenIDs, input>>

NextDate == CallParseFlexibleDate

SpecDate == InitDate /\ [][NextDate]_vars

\* what the first of the layouts accepting the text makes of it
FirstMatch(cfg, dateStr) ==
    TimeParse((cfg.DateFormats \o additionalFormats)
                  [CHOOSE i \in Matching(cfg, dateStr) :
                      \A j \in Matching(cfg, dateStr) : i <= j], dateStr)

DateReadAs(unix) ==
    IF Matching(config, input.text) # {}
    THEN /\ output.ok
         /\ output.sec = FormatD(FirstMatch(config, input.text).sec)
         /\ output.ms = FirstMatch(config, input.text).ms
    ELSE IF unix
    THEN output.ok /\ output.sec = input.sec /\ output.ms = input.ms
    ELSE ~output.ok

\* C19 as stated: the configured patterns are tried in order, then the fallback ones,
\* and a text matching none of them is read as a Unix time whenever it is an integer n
\* (n milliseconds when n > 10^10, n seconds otherwise) and fails otherwise.
C19_EveryIntegerReadAsUnixTime == pc = 1 => DateReadAs(input.integer)

\* C19, amended: the configured patterns are tried in order, then the fallback ones;
\* a text matching none of them is read as a Unix time when it is an integer n within
\* the signed 64-bit range (n milliseconds when n > 10^10, n seconds otherwise), and
\* fails when it is no integer or an integer outside that range.
C19_Int64ReadAsUnixTime == pc = 1 => DateReadAs(input.integer /\ input.int64)

\* the integer 10^10 itself, matching no pattern, was read as seconds
C19_Witness ==
    /\ pc = 1
    /\ input.text = <<"1","0","0","0","0","0","0","0","0","0","0">>
    /\ output.ok
    /\ output.sec = <<"1","0","0","0","0","0","0","0","0","0","0">>
    /\ output.ms = 0

(***************************************************************************)
(* Time zones of the returned records.                                     *)
(***************************************************************************)
\* C20: the timestamp of every record ProcessDataFile and ProcessDataStream (which
\* returns the records of ConvertToTransactions as they are) return is in UTC.
C20_TimestampsInUTC ==
    input.op \in {"ProcessDataFile", "ProcessDataStream"} =>
        \A i \in 1..Len(output.records) : output.records[i].TxTime.loc = "UTC"

(***************************************************************************)
(* Quality metrics.                                                        *)
(***************************************************************************)
QualityRecords ==
    {Transaction(<<"T","X","1">>, <<"C">>, <<"N">>, <<"P">>, 1050, 2, MkTime(1710460800, 0, "UTC")),
     Transaction(<<"T","X","2">>, <<"C">>, <<>>, <<"P">>, 1050, 2, MkTime(1710460800, 0, "UTC")),
     Transaction(<<"T","X","1">>, <<>>, <<>>, <<>>, 0, 0, ZeroTime),
     Transaction(<<>>, <<"C">>, <<"N">>, <<"P">>, -5, -1, MkTime(1710460800, 0, "UTC")),
     Transaction(<<"T","X","3">>, <<"C">>, <<"N">>, <<"P">>, 899, 1, MkTime(1710498645, 0, "UTC"))}

\* ten records, the last sharing the identifier of the first
TenRecords ==
    [i \in 1..10 |->
        Transaction(<<"T","X">> \o NatText(IF i = 10 THEN 1 ELSE i), <<"C">>, <<"N">>, <<"P">>, 1050, 2,
                    MkTime(1710460800, 0, "UTC"))]

QualityInputs == UNION {[1..n -> QualityRecords] : n \in 0..MaxRecords} \cup {TenRecords}

InitQuality ==
    /\ config = DefaultConfig
    /\ transformations = DefaultTransformations
    /\ seenIDs = {}
    /\ input \in QualityInputs
    /\ output = NoCall
    /\ pc = 0

\* e.calculateDataQuality(transactions)
CallCalculateDataQuality ==
    /\ pc = 0
    /\ output' = [op |-> "calculateDataQuality", metrics |-> calculateDataQuality(input)]
    /\ pc' = 1
    /\ UNCHANGED <<config, transformations, seenIDs, input>>

NextQuality == CallCalculateDataQuality

SpecQuality == InitQuality /\ [][NextQuality]_vars

SevenFields == {"id", "country", "region", "product_name", "price", "quantity", "date"}

FieldPresent(f, tx) ==
    CASE f = "id" -> tx.ID # <<>>
      [] f = "country" -> tx.Country # <<>>
      [] f = "region" -> tx.Region # <<>>
      [] f = "product_name" -> tx.ProductName # <<>>
      [] f = "price" -> tx.UnitPriceCents > 0
      [] f = "quantity" -> tx.Quantity > 0
      [] f = "date" -> ~tx.TxTime.zero

Having(f) == Cardinality({i \in 1..Len(input) : FieldPresent(f, input[i])})

RECURSIVE HavingAll(_)
HavingAll(fs) ==
    IF fs = {} THEN 0
    ELSE LET f == CHOOSE f \in fs : TRUE IN Having(f) + HavingAll(fs \ {f})

SameRatio(r, num, den) == r.num * den = num * r.den

\* the overall completeness is the mean of the seven fractions, and is below 1 when
\* no record has a region
MeanOfSeven ==
    /\ SameRatio(output.metrics.Completeness, HavingAll(SevenFields), 7 * Len(input))
    /\ Having("region") = 0 => output.metrics.Completeness.num < output.metrics.Completeness.den

C22_UniquenessOfProcessedBatch ==
    (/\ input.op \in {"ProcessDataFile", "ProcessDataStream"}
     /\ ~output.result.nil
     /\ output.result.OriginalRecords > 0)
        => SameRatio(output.result.DataQuality.Uniqueness,
                     Cardinality({output.records[i].ID : i \in 1..Len(output.records)}),
                     output.result.OriginalRecords)

(***************************************************************************)
(* Country and region mapping.                                             *)
(***************************************************************************)
\* a configuration whose custom mappings disagree with the built-in tables
OverridingConfig ==
    [DefaultConfig EXCEPT !.CustomMappings =
        (<<"u","s","a">> :> <<"U","S","A">>) @@ (<<"a","t","l","a","n","t","i","s">> :> <<"A","t","l","a","n","t","i","s"," ","R","e","p","u","b","l","i","c">>) @@
        (<<"r","e","g","i","o","n","_","n">> :> <<"N","o","r","d">>) @@ (<<"r","e","g","i","o","n","_","x">> :> <<"X","a","n","a","d","u">>)]

MappingConfigs == {DefaultConfig, OverridingConfig}

MappingInputs ==
    {<<"u","s","a">>, <<"U","S","A">>, <<"u","k">>, <<"s","o","u","t","h"," ","k","o","r","e","a">>, <<"a","t","l","a","n","t","i","s">>, <<"f","r","a","n","c","e">>, <<"n","e","w"," ","z","e","a","l","a","n","d">>, <<"G","e","r","m","a","n","y">>,
     <<"n">>, <<"N">>, <<"x">>, <<"c","e","n","t","r","a","l">>, <<"f","a","r"," ","e","a","s","t">>, <<>>}

InitMapping ==
    /\ config \in MappingConfigs
    /\ transformations = DefaultTransformations
    /\ seenIDs = {}
    /\ input \in MappingInputs
    /\ output = NoCall
    /\ pc = 0

\* the value returned by the named mapper
Mapped(op, value) ==
    /\ pc = 0
    /\ output' = [op |-> op, value |-> value]
    /\ pc' = 1
    /\ UNCHANGED <<config, transformations, seenIDs, input>>

\* CountryMapping.mapCountry(country)
CallMapCountry == Mapped("CountryMapping.mapCountry", mapCountry(config, input))

\* RegionMapping.mapRegion(region)
CallMapRegion == Mapped("RegionMapping.mapRegion", mapRegion(config, input))

\* e.mapCountry(country)
CallEngineMapCountry ==
    Mapped("engine.mapCountry", engineMapCountry(NewDataTransformationEngine(config), input))

\* e.mapRegion(region)
CallEngineMapRegion ==
    Mapped("engine.mapRegion", engineMapRegion(NewDataTransformationEngine(config), input))

NextMapping == CallMapCountry \/ CallMapRegion \/ CallEngineMapCountry \/ CallEngineMapRegion

SpecMapping == InitMapping /\ [][NextMapping]_vars

\* the key under which the mapper looks the value up in the custom mappings, and the
\* mapper's own built-in table
CustomKey(op, value) ==
    IF op \in {"RegionMapping.mapRegion", "engine.mapRegion"}
    THEN <<"r","e","g","i","o","n","_">> \o ToLower(value) ELSE ToLower(value)

BuiltIn(op) ==
    CASE op = "CountryMapping.mapCountry" -> CountryMappings
      [] op = "RegionMapping.mapRegion" -> RegionMappings
      [] op = "engine.mapCountry" -> engineCountryMappings
      [] op = "engine.mapRegion" -> EmptyMap

\* C23: country and region mapping look the lower-cased value up in the custom
\* mappings first and in the built-in table second, and title-case a value found in
\* neither.
C23_CustomMappingFirst ==
    pc = 1 =>
        output.value =
            IF Has(config.CustomMappings, CustomKey(output.op, input))
            THEN config.CustomMappings[CustomKey(output.op, input)]
            ELSE IF Has(BuiltIn(output.op), ToLower(input))
            THEN BuiltIn(output.op)[ToLower(input)]
            ELSE Title(ToLower(input))

(***************************************************************************)
(* The data quality report.                                                *)
(***************************************************************************)
\* DataQualityIssue; the description is kept as the format and its arguments
DataQualityIssue(type, description, severity, count) ==
    [Type |-> type, Description |-> description, Severity |-> severity, Count |-> count]

\* the issues of the missingFields map, which holds a key for a field once some record
\* lacks it; order is the order in which the range loop visits its keys
missingFieldIssues(transactions, order) ==
    LET missing(field) ==
            IF field = "transaction_id" THEN Count(transactions, LAMBDA tx : tx.ID = <<>>)
            ELSE Count(transactions, LAMBDA tx : tx.ProductName = <<>>)
        keys == SelectSeq(order, LAMBDA field : missing(field) > 0)
    IN  [k \in 1..Len(keys) |->
            DataQualityIssue("missing_data",
                             <<"Missing %s in %d records", keys[k], missing(keys[k])>>,
                             "high", missing(keys[k]))]

\* an issue that is reported when its count is positive
issueIf(type, format, severity, count) ==
    IF count > 0 THEN <<DataQualityIssue(type, <<format, count>>, severity, count)>> ELSE <<>>

\* duplicateCount: the identifiers that more than one record carries
duplicateCount(transactions) ==
    Cardinality({id \in {transactions[i].ID : i \in 1..Len(transactions)} :
                    Count(transactions, LAMBDA tx : tx.ID = id) > 1})

identifyDataQualityIssues(transactions, order) ==
    missingFieldIssues(transactions, order)
    \o issueIf("duplicate_data", "Found %d duplicate transaction IDs", "medium",
               duplicateCount(transactions))
    \o issueIf("invalid_data", "Invalid prices in %d records", "high",
               Count(transactions, LAMBDA tx : tx.UnitPriceCents <= 0))
    \o issueIf("invalid_data", "Invalid quantities in %d records", "high",
               Count(transactions, LAMBDA tx : tx.Quantity <= 0))
    \o issueIf("invalid_data", "Invalid dates in %d records", "high",
               Count(transactions, LAMBDA tx : IsZero(tx.TxTime)))
    \o issueIf("missing_data", "Missing country data in %d records", "medium",
               Count(transactions, LAMBDA tx : tx.Country = <<>>))
    \o issueIf("missing_data", "Missing region data in %d records", "low",
               Count(transactions, LAMBDA tx : tx.Region = <<>>))

\* ratio < percent / 100
Below(ratio, percent) == ratio.num * 100 < percent * ratio.den

\* a recommendation that is made when its condition holds
recommendIf(condition, text) == IF condition THEN <<text>> ELSE <<>>

\* metrics.FieldMetrics[key] with the ok of the lookup: the key is there and its value
\* is below the percentage
FieldBelow(metrics, field, percent) ==
    field \in DOMAIN metrics.FieldMetrics /\ Below(metrics.FieldMetrics[field], percent)

generateRecommendations(metrics) ==
    recommendIf(Below(metrics.Completeness, 95),
        "Improve data completeness by implementing validation at data entry points")
    \o recommendIf(Below(metrics.Validity, 90),
        "Implement stricter data validation rules to improve data validity")
    \o recommendIf(Below(metrics.Uniqueness, 99),
        "Review data collection process to eliminate duplicate entries")
    \o recommendIf(FieldBelow(metrics, "country", 90),
        "Implement default country mapping or mandatory country field")
    \o recommendIf(FieldBelow(metrics, "region", 85),
        "Consider enriching data with region information based on other geographic data")
    \o <<"Regular data quality monitoring should be implemented">>

DataQualityReport(metrics, total, issues) ==
    [Metrics |-> metrics, TotalRecords |-> total, Issues |-> issues,
     Recommendations |-> generateRecommendations(metrics)]

\* the orders in which a range loop may visit the keys of missingFields
KeyOrders == {<<"transaction_id", "product_name">>, <<"product_name", "transaction_id">>}

InitReport ==
    /\ config = DefaultConfig
    /\ transformations = DefaultTransformations
    /\ seenIDs = {}
    /\ input \in QualityInputs
    /\ output = NoCall
    /\ pc = 0

\* fdh.GetDataQualityReport(transactions)
GetDataQualityReport ==
    /\ pc = 0
    /\ \E order \in KeyOrders :
        output' = [op |-> "GetDataQualityReport",
                   report |-> DataQualityReport(calculateDataQuality(input), Len(input),
                                                identifyDataQualityIssues(input, order))]
    /\ pc' = 1
    /\ UNCHANGED <<config, transformations, seenIDs, input>>

NextReport == GetDataQualityReport

SpecReport == InitReport /\ [][NextReport]_vars

\* record i of the input exhibits the issue
Exhibits(issue, i) ==
    CASE issue.Description[1] = "Missing %s in %d records" ->
            IF issue.Description[2] = "transaction_id" THEN input[i].ID = <<>>
            ELSE input[i].ProductName = <<>>
      [] issue.Description[1] = "Found %d duplicate transaction IDs" ->
            \E j \in 1..Len(input) : j # i /\ input[j].ID = input[i].ID
      [] issue.Description[1] = "Invalid prices in %d records" -> input[i].UnitPriceCents <= 0
      [] issue.Description[1] = "Invalid quantities in %d records" -> input[i].Quantity <= 0
      [] issue.Description[1] = "Invalid dates in %d records" -> input[i].TxTime.zero
      [] issue.Description[1] = "Missing country data in %d records" -> input[i].Country = <<>>
      [] issue.Description[1] = "Missing region data in %d records" -> input[i].Region = <<>>

\* C24: the count of every issue of the report is the number of records that exhibit
\* it; the count of the duplicate_data issue is the number of records whose identifier
\* occurs more than once.
C24_IssueCountsRecords ==
    pc = 1 =>
        \A k \in 1..Len(output.report.Issues) :
            output.report.Issues[k].Count =
                Cardinality({i \in 1..Len(input) : Exhibits(output.report.Issues[k], i)})

\* C28: the report recommends enriching region data whenever fewer than 85% of the
\* records have a region, and a default or mandatory country whenever fewer than 90%
\* have a country, also when no record has the field.
C28_GeographicRecommendations ==
    (pc = 1 /\ input # <<>>) =>
        /\ Having("region") * 100 < 85 * Len(input) =>
            \E k \in 1..Len(output.report.Recommendations) :
                output.report.Recommendations[k] =
                    "Consider enriching data with region information based on other geographic data"
        /\ Having("country") * 100 < 90 * Len(input) =>
            \E k \in 1..Len(output.report.Recommendations) :
                output.report.Recommendations[k] =
                    "Implement default country mapping or mandatory country field"

(***************************************************************************)
(* The revenue table's pagination.                                         *)
(***************************************************************************)
\* strconv.Atoi(s) with its error dropped: 0 for a text that is no integer. A number
\* of ten digits or more stands as 10^9 here (the value Atoi gives, clamped to the int
\* range on overflow, exceeds like it every limit and every table of the model).
Atoi(s) ==
    IF ~IsDigits(Unsigned(s)) THEN 0
    ELSE IF Len(StripLeadingZeros(Unsigned(s))) > 9
    THEN (IF Head(s) = "-" THEN 0 - Pow10(9) ELSE Pow10(9))
    ELSE IntValue(s)

\* The handler, were a limit above 1000 served as it is.
CountryRevenueUncapped(limitText, offsetText, all) ==
    LET limit == IF Atoi(limitText) <= 0 THEN 100 ELSE Atoi(limitText)
        offset == IF Atoi(offsetText) < 0 THEN 0 ELSE Atoi(offsetText)
    IN  IF offset >= Len(all) THEN <<>>
        ELSE SubSeq(all, offset + 1, IF offset + limit > Len(all) THEN Len(all) ELSE offset + limit)

\* api.CountryRevenue: the rows written for the query values q.Get("limit") and
\* q.Get("offset"), an absent parameter being the empty text; rows count from 1 here
CountryRevenue(limitText, offsetText, all) ==
    LET limit == IF Atoi(limitText) <= 0 \/ Atoi(limitText) > 1000 THEN 100 ELSE Atoi(limitText)
        offset == IF Atoi(offsetText) < 0 THEN 0 ELSE Atoi(offsetText)
    IN  IF offset >= Len(all) THEN <<>>
        ELSE SubSeq(all, offset + 1, IF offset + limit > Len(all) THEN Len(all) ELSE offset + limit)

\* Query values: the text, and the number it stands for when it is one (10^9 for a
\* number beyond the model's integers).
QueryNumber(text, value) == [text |-> text, numeric |-> TRUE, value |-> value]

QueryText(text) == [text |-> text, numeric |-> FALSE, value |-> 0]

LimitValues ==
    {QueryText(<<>>), QueryText(<<"a","b","c">>), QueryText(<<"1","e","2">>), QueryNumber(<<"0">>, 0),
     QueryNumber(<<"-","3">>, -3), QueryNumber(<<"1">>, 1), QueryNumber(<<"2">>, 2), QueryNumber(<<"1","0","0">>, 100),
     QueryNumber(<<"1","0","0","0">>, 1000), QueryNumber(<<"1","0","0","1">>, 1001), QueryNumber(<<"5","0","0","0">>, 5000),
     QueryNumber(<<"9","9","9","9","9","9","9","9","9","9","9","9","9","9","9","9","9","9","9","9">>, 1000000000)}

OffsetValues ==
    {QueryText(<<>>), QueryText(<<"a","b","c">>), QueryNumber(<<"-","1">>, -1), QueryNumber(<<"0">>, 0),
     QueryNumber(<<"1">>, 1), QueryNumber(<<"3">>, 3), QueryNumber(<<"1","4","9">>, 149),
     QueryNumber(<<"1","0","9","9">>, 1099), QueryNumber(<<"1","1","0","0">>, 1100), QueryNumber(<<"2","0","0","0">>, 2000),
     QueryNumber(<<"9","9","9","9","9","9","9","9","9","9","9","9","9","9","9","9","9","9","9","9">>, 1000000000)}

\* the numbers of rows of the revenue table
TableSizes == {0, 3, 150, 1100}

InitPage ==
    /\ config = DefaultConfig
    /\ transformations = DefaultTransformations
    /\ seenIDs = {}
    /\ input \in [limit : LimitValues, offset : OffsetValues, rows : TableSizes]
    /\ output = NoCall
    /\ pc = 0

\* GET /api/revenue/countries?limit=..&offset=.., the table's rows being 1..rows
CallCountryRevenue ==
    /\ pc = 0
    /\ output' = [op |-> "CountryRevenue",
                  rows |-> CountryRevenue(input.limit.text, input.offset.text,
                                          [k \in 1..input.rows |-> k])]
    /\ pc' = 1
    /\ UNCHANGED <<config, transformations, seenIDs, input>>

NextPage == CallCountryRevenue

SpecPage == InitPage /\ [][NextPage]_vars

\* the limit and the offset the query values stand for
EffectiveLimit ==
    IF ~input.limit.numeric \/ input.limit.value <= 0 \/ input.limit.value > 1000
    THEN 100 ELSE input.limit.value

EffectiveOffset ==
    IF ~input.offset.numeric \/ input.offset.value < 0 THEN 0 ELSE input.offset.value

PageEnd ==
    IF EffectiveOffset + EffectiveLimit < input.rows
    THEN EffectiveOffset + EffectiveLimit ELSE input.rows

EngineRows ==
    {Line(<<<<"T","X","1">>, <<"u","s","a">>, <<"n">>, <<"w","i","d","g","e","t"," ","a">>, <<"1","0",".","5","0">>, <<"2">>, <<"2","0","2","4","-","0","3","-","1","5">>>>),
     Line(<<<<"T","X","1">>, <<"u","k">>, <<"s">>, <<"g","a","d","g","e","t">>, <<"8",".","9","9">>, <<"1">>, <<"2","0","2","4","-","0","3","-","1","5">>>>),
     Line(<<<<"T","X","1">>, <<"u","s","a">>, <<"n">>, <<"w","i","d","g","e","t"," ","a">>, <<"1","0",".","5","0">>, <<"0">>, <<"2","0","2","4","-","0","3","-","1","5">>>>),
     Line(<<<<"T","X","2">>, <<"u","s","a">>, <<"n">>, <<"w","i","d","g","e","t"," ","a">>, <<"1","0",".","5","0">>, <<"2">>, <<"2","0","2","4","-","0","3","-","1","5">>>>),
     Line(<<<<"T","X","3">>, <<"u","s","a">>, <<"n">>, <<"w","i","d","g","e","t"," ","a">>, <<"a","b","c">>, <<"2">>, <<"2","0","2","4","-","0","3","-","1","5">>>>)}

EngineDocs == {CsvDoc(rows) : rows \in UNION {[1..n -> EngineRows] : n \in 1..MaxRecords}}

InitEngine ==
    /\ config \in Configs
    /\ transformations = DefaultTransformations
    /\ seenIDs = {}
    /\ input \in EngineDocs
    /\ output = NoCall
    /\ pc = 0

\* engine.TransformCSVData(reader) on a fresh engine
CallTransformCSVData ==
    /\ pc = 0
    /\ output' = TransformCSVData(config, transformations, seenIDs, input)
    /\ seenIDs' = output'.seenIDs
    /\ pc' = 1
    /\ UNCHANGED <<config, transformations, input>>

NextEngine == CallTransformCSVData

SpecEngine == InitEngine /\ [][NextEngine]_vars

\* the rows of the input that transformRecord accepts, in order
Accepted == SelectSeq(Tail(input.lines), LAMBDA l : l.cells[5] # <<"a","b","c">>)

\* the accepted records whose identifier is that of an earlier accepted record
Repeating == {j \in 1..Len(Accepted) : \E i \in 1..(j - 1) : Accepted[i].cells[1] = Accepted[j].cells[1]}

\* C27: in a run of TransformCSVData with validation on a fresh engine, every record
\* whose identifier is that of an earlier record of the run produces a duplicate
\* transaction ID warning, also when it or the earlier record fails another validator.
C27_EveryRepeatedIdentifierWarned ==
    (pc = 1 /\ config.EnableValidation) =>
        Cardinality({k \in 1..Len(output.result.Warnings) :
                        output.result.Warnings[k].err = "duplicate transaction ID"})
            = Cardinality(Repeating)

\* C26: in the result of every processing call the original records are the
\* transformed ones plus the skipped ones.
C26_RecordAccounting ==
    (input.op \in {"ProcessDataFile", "ProcessDataStream"} /\ ~output.result.nil) =>
        output.result.OriginalRecords =
            output.result.TransformedRecords + output.result.SkippedRecords

(***************************************************************************)
(* Files longer than the sniffed prefix.                                   *)
(***************************************************************************)
\* the unit repeated n times
Repeated(unit, n) == [i \in 1..(n * Len(unit)) |-> unit[((i - 1) % Len(unit)) + 1]]

\* JSON documents as text: an array of numbers and an object of members, after pad
\* blanks; the lengths lie on both sides of 1024
JsonArray(pad, n) == <<"[">> \o pad \o Repeated(<<"1",",">>, n) \o <<"1","]">>

JsonObject(pad, member, n) == <<"{">> \o pad \o Repeated(member \o <<",">>, n) \o member \o <<"}">>

JsonTexts ==
    {JsonArray(pad, n) : pad \in {<<>>, <<" ">>}, n \in {0, 5, 510, 511, 700}}
    \cup {JsonObject(pad, <<"\"","a","\"",":","1">>, n) : pad \in {<<>>, <<" ">>, <<" "," ">>, <<" "," "," ">>}, n \in {0, 169, 170, 300}}
    \cup {JsonObject(pad, <<"\"","a","\"",":","\n","-","1">>, n) : pad \in {<<>>, <<" ">>, <<" "," ">>, <<" "," "," ">>}, n \in {0, 126, 127, 300}}
    \cup {JsonObject(pad, <<"\"","a","\"",":","\t","1">>, n) : pad \in {<<>>, <<" ">>, <<" "," ">>, <<" "," "," ">>}, n \in {0, 145, 146, 300}}

\* strings.ToLower(filepath.Ext(filePath)) of the files: one recognized extension and
\* three that are not
LongFileExtensions == {".json", "", ".txt", ".dat"}

InitSniff ==
    /\ config = DefaultConfig
    /\ transformations = DefaultTransformations
    /\ seenIDs = {}
    /\ input \in [ext : LongFileExtensions, content : JsonTexts]
    /\ output = NoCall
    /\ pc = 0

\* buffer[:n] after file.Read on a buffer of 1024 bytes
ReadBuffer(content) == SubSeq(content, 1, IF Len(content) < 1024 THEN Len(content) ELSE 1024)

\* ProcessDataFile's fdh.detectFileFormat(filePath, file)
DetectLongFileFormat ==
    /\ pc = 0
    /\ output' = [op |-> "detectFileFormat",
                  kind |-> detectFileFormat([ext |-> input.ext,
                                             sniffed |-> DetectFormat(ReadBuffer(input.content))])]
    /\ pc' = 1
    /\ UNCHANGED <<config, transformations, seenIDs, input>>

NextSniff == DetectLongFileFormat

SpecSniff == InitSniff /\ [][NextSniff]_vars

\* C29: a file without a recognized extension whose whole content is a JSON document
\* is classified as json whatever its size, also beyond the 1KB that is sniffed.
C29_JsonContentClassifiedJson ==
    (pc = 1 /\ input.ext \notin {".csv", ".tsv", ".json", ".yaml", ".yml", ".xml"})
        => output.kind = "json"

(***************************************************************************)
(* Columns shared by standard fields.                                      *)
(***************************************************************************)
\* C30: the column map built from a header row binds no column to two different
\* standard fields, so price and quantity are never read from the same column.
C30_ColumnMapInjective ==
    pc = 1 =>
        \A f, g \in DOMAIN columnVariations :
            (Has(output, f) /\ Has(output, g) /\ output[f] = output[g]) => f = g

====
